---- MODULE Spec2Model ----
(***************************************************************************)
(* Monthly allocation recurrence of the personal finance tracker.          *)
(*                                                                         *)
(* src/src/App.tsx   : final evolution (stats useMemo, lines 363-492)      *)
(* src/unnamed/part_000 : earlier evolution with the capital-priority      *)
(*                        transfer (stats useMemo, lines 326-485)          *)
(*                                                                         *)
(* Money is a JavaScript number, i.e. an IEEE-754 binary64.  Transaction   *)
(* amounts and configured balances are integers (handleSave floors the     *)
(* amount, handleStatChange accepts digit strings only), and integer       *)
(* arithmetic on them is exact, so they are TLA+ integers.  Every value    *)
(* that descends from a product with 0.9 or 0.1 is a binary64, modelled    *)
(* exactly as a sign and a fixed-point magnitude with round-to-nearest,    *)
(* ties-to-even, after each operation.                                     *)
(***************************************************************************)
EXTENDS Integers, Sequences, FiniteSets, TLC

(***************************************************************************)
(* IEEE-754 binary64 arithmetic.                                           *)
(* A magnitude is a little-endian sequence of limbs in base 2^28 counting  *)
(* units of 2^-112: limbs 1..4 are the fraction, limb 5 the integer part.  *)
(* A double is [s |-> 1 or -1, m |-> magnitude]; zero has s = 1.           *)
(***************************************************************************)
\* bits per limb, and per half limb (products are formed on half limbs)
W == 28

H == 14

B == 2^W

ZeroMag == <<0, 0, 0, 0, 0>>

\* the significand width of a binary64
Precision == 53

\* F(v) with v evaluated once
Strict(v, F(_)) == CHOOSE r \in {F(t) : t \in {v}} : TRUE

RECURSIVE AddLimbs(_, _, _, _)
AddLimbs(a, b, i, c) ==
    IF i > Len(a) THEN <<>>
    ELSE Strict(a[i] + b[i] + c,
                LAMBDA t : <<t % B>> \o AddLimbs(a, b, i + 1, t \div B))

MagAdd(a, b) == AddLimbs(a, b, 1, 0)

RECURSIVE SubLimbs(_, _, _, _)
SubLimbs(a, b, i, c) ==
    IF i > Len(a) THEN <<>>
    ELSE Strict(a[i] - b[i] - c,
                LAMBDA t : IF t < 0 THEN <<t + B>> \o SubLimbs(a, b, i + 1, 1)
                                    ELSE <<t>> \o SubLimbs(a, b, i + 1, 0))

\* a - b for a >= b
MagSub(a, b) == SubLimbs(a, b, 1, 0)

MagLess(a, b) ==
    \E i \in 1..Len(a) : /\ a[i] < b[i]
                         /\ \A j \in (i + 1)..Len(a) : a[j] = b[j]

\* number of significant bits of a limb
BitLenSmall(n) ==
    LET n16 == IF n >= 2^16 THEN n \div 2^16 ELSE n
        n8  == IF n16 >= 2^8 THEN n16 \div 2^8 ELSE n16
        n4  == IF n8 >= 2^4 THEN n8 \div 2^4 ELSE n8
        n2  == IF n4 >= 2^2 THEN n4 \div 2^2 ELSE n4
    IN  (IF n >= 2^16 THEN 16 ELSE 0) + (IF n16 >= 2^8 THEN 8 ELSE 0)
        + (IF n8 >= 2^4 THEN 4 ELSE 0) + (IF n4 >= 2^2 THEN 2 ELSE 0)
        + (IF n2 >= 2 THEN 2 ELSE n2)

RECURSIVE TopLimb(_, _)
TopLimb(a, i) == IF i = 0 \/ a[i] # 0 THEN i ELSE TopLimb(a, i - 1)

\* number of significant bits of a magnitude (0 for zero)
BitLen(a) ==
    Strict(TopLimb(a, Len(a)),
           LAMBDA top : IF top = 0 THEN 0 ELSE W * (top - 1) + BitLenSmall(a[top]))

Bit(a, k) == (a[(k \div W) + 1] \div (2^(k % W))) % 2

\* TRUE iff some bit of a below bit k is set
Sticky(a, k) ==
    \/ \E i \in 1..(k \div W) : a[i] # 0
    \/ a[(k \div W) + 1] % (2^(k % W)) # 0

\* a with the bits below bit k cleared
Truncate(a, k) ==
    [i \in 1..Len(a) |->
        IF i < (k \div W) + 1 THEN 0
        ELSE IF i = (k \div W) + 1 THEN a[i] - (a[i] % (2^(k % W)))
        ELSE a[i]]

\* 2^k as a magnitude of n limbs
PowerOfTwo(n, k) ==
    [i \in 1..n |-> IF i = (k \div W) + 1 THEN 2^(k % W) ELSE 0]

RoundAt(a, q) ==
    IF q <= 0 THEN a
    ELSE IF Bit(a, q - 1) = 1 /\ (Sticky(a, q - 1) \/ Bit(a, q) = 1)
         THEN Strict(Truncate(a, q), LAMBDA down :
              Strict(PowerOfTwo(Len(a), q), LAMBDA inc : MagAdd(down, inc)))
         ELSE Truncate(a, q)

\* round a magnitude to 53 significant bits, nearest, ties to even
Round53(m) ==
    Strict(m, LAMBDA a : Strict(BitLen(a) - Precision, LAMBDA q : RoundAt(a, q)))

MkF(s, m) ==
    Strict(m, LAMBDA a : [s |-> IF \A i \in 1..Len(a) : a[i] = 0 THEN 1 ELSE s,
                          m |-> <<a[1], a[2], a[3], a[4], a[5]>>])

FZero == MkF(1, ZeroMag)

Abs(n) == IF n < 0 THEN -n ELSE n

\* the double holding the integer n
FromInt(n) == MkF(IF n < 0 THEN -1 ELSE 1, <<0, 0, 0, 0, Abs(n)>>)

FNeg(x) == MkF(-x.s, x.m)

AddValues(x, y) ==
    IF x.s = y.s THEN MkF(x.s, Round53(MagAdd(x.m, y.m)))
    ELSE IF MagLess(x.m, y.m) THEN MkF(y.s, Round53(MagSub(y.m, x.m)))
    ELSE MkF(x.s, Round53(MagSub(x.m, y.m)))

\* x + y
FAdd(x, y) == Strict(x, LAMBDA a : Strict(y, LAMBDA b : AddValues(a, b)))

\* x - y
FSub(x, y) == Strict(x, LAMBDA a : Strict(y, LAMBDA b : AddValues(a, FNeg(b))))

LessValues(x, y) ==
    IF x.s # y.s THEN x.s < y.s
    ELSE IF x.s = 1 THEN MagLess(x.m, y.m)
    ELSE MagLess(y.m, x.m)

\* x < y
FLess(x, y) == Strict(x, LAMBDA a : Strict(y, LAMBDA b : LessValues(a, b)))

FLeq(x, y) == ~FLess(y, x)

FPos(x) == FLess(FZero, x)

\* Math.min(x, y), Math.max(x, y)
FMin(x, y) ==
    Strict(x, LAMBDA a : Strict(y, LAMBDA b : IF LessValues(b, a) THEN b ELSE a))

FMax(x, y) ==
    Strict(x, LAMBDA a : Strict(y, LAMBDA b : IF LessValues(a, b) THEN b ELSE a))

\* the literals 0.9 and 0.1 as binary64, in half limbs counting units of 2^-56
\* 0.9 = 0x1CCCCCCCCCCCCD * 2^-53,  0.1 = 0x1999999999999A * 2^-56
Lit09 == <<9832, 6553, 9830, 14745>>

Lit01 == <<6554, 9830, 6553, 1638>>

\* a magnitude in half limbs, and back
Split(a) ==
    [k \in 1..(2 * Len(a)) |->
        IF k % 2 = 1 THEN a[(k + 1) \div 2] % 2^H ELSE a[k \div 2] \div 2^H]

Pack(h) == [i \in 1..(Len(h) \div 2) |-> h[2 * i - 1] + 2^H * h[2 * i]]

\* column k of the schoolbook product of a and c
RECURSIVE ColumnSum(_, _, _, _)
ColumnSum(a, c, k, j) ==
    IF j > Len(c) THEN 0
    ELSE (IF k - j + 1 >= 1 /\ k - j + 1 <= Len(a) THEN a[k - j + 1] * c[j] ELSE 0)
         + ColumnSum(a, c, k, j + 1)

RECURSIVE MulLimbs(_, _, _, _)
MulLimbs(a, c, k, carry) ==
    IF k > Len(a) + Len(c) THEN <<>>
    ELSE Strict(ColumnSum(a, c, k, 1) + carry,
                LAMBDA t : <<t % 2^H>> \o MulLimbs(a, c, k + 1, t \div 2^H))

\* the exact product of magnitude a and literal c, counting units of 2^-168
MagMul(a, c) ==
    Strict(Split(a), LAMBDA h : Strict(MulLimbs(h, c, 1, 0), LAMBDA p : Pack(p)))

\* x * c for a literal c: the exact product is rounded and its two lowest
\* limbs (56 bits, all zero after rounding) are dropped
FMul(x, c) ==
    Strict(x, LAMBDA a :
    Strict(Round53(MagMul(a.m, c)),
           LAMBDA p : MkF(a.s, <<p[3], p[4], p[5], p[6], p[7]>>)))

(***************************************************************************)
(* Data model.  A month key 'YYYY-MM' is <<year, month>>; a date           *)
(* 'YYYY-MM-DD' is <<year, month, day>>.  String order on keys with four   *)
(* digit years and zero padded months is the lexicographic order below.    *)
(***************************************************************************)
CategoryIncome == "income"     \* the reserved category '收入'

CategoryInvest == "invest"     \* the reserved category '投資'

CategoryFood == "food"         \* an ordinary expense category ('飲食')

NoGroup == <<>>              \* groupId undefined

\* t.date.substring(0, 7)
MonthKey(date) == <<date[1], date[2]>>

KeyLess(a, b) == a[1] < b[1] \/ (a[1] = b[1] /\ a[2] < b[2])

RECURSIVE SortKeysDescending(_)
\* mutant: the months are walked from the latest to the earliest
SortKeysDescending(S) ==
    IF S = {} THEN <<>>
    ELSE LET last == CHOOSE k \in S : \A j \in S : ~KeyLess(k, j)
         IN  <<last>> \o SortKeysDescending(S \ {last})

\* Object.keys(...).sort() / Array.from(months).sort()
RECURSIVE SortKeys(_)
SortKeys(S) ==
    IF S = {} THEN <<>>
    ELSE LET least == CHOOSE k \in S : \A j \in S : ~KeyLess(j, k)
         IN  <<least>> \o SortKeys(S \ {least})

\* the empty MonthlyData record
EmptyMonth ==
    [income |-> 0, assetLiquidation |-> 0, expense |-> 0, installmentExpense |-> 0,
     savingsExpense |-> 0, emergencyExpense |-> 0, actualInvested |-> 0,
     investedFromMonthly |-> 0, investedFromCumulative |-> 0, need |-> 0, want |-> 0,
     categoryMap |-> <<>>]

\* categoryMap[c] += amount, creating the entry at 0 first
AddCategory(cm, c, amount) ==
    IF c \in DOMAIN cm THEN [cm EXCEPT ![c] = @ + amount]
    ELSE [k \in (DOMAIN cm) \cup {c} |-> IF k = c THEN amount ELSE cm[k]]

\* mutant: an investment from the monthly budget also counts as expense
AddToMonthInvestAsExpense(r, t) ==
    IF t.category = CategoryIncome THEN
        IF t.isAssetLiquidation
        THEN [r EXCEPT !.assetLiquidation = @ + t.amount]
        ELSE [r EXCEPT !.income = @ + t.amount]
    ELSE IF t.category = CategoryInvest THEN
        IF t.investSource = "cumulative"
        THEN [r EXCEPT !.actualInvested = @ + t.amount,
                       !.investedFromCumulative = @ + t.amount]
        ELSE [r EXCEPT !.actualInvested = @ + t.amount,
                       !.investedFromMonthly = @ + t.amount,
                       !.expense = @ + t.amount]
    ELSE
        LET flows ==
                IF t.fromSavings THEN [r EXCEPT !.savingsExpense = @ + t.amount]
                ELSE IF t.fromEmergency THEN [r EXCEPT !.emergencyExpense = @ + t.amount]
                ELSE [r EXCEPT !.expense = @ + t.amount,
                               !.installmentExpense =
                                   IF t.groupId # NoGroup THEN @ + t.amount ELSE @,
                               !.need = IF t.tag = "need" THEN @ + t.amount ELSE @,
                               !.want = IF t.tag = "want" THEN @ + t.amount ELSE @]
        IN  [flows EXCEPT !.categoryMap = AddCategory(@, t.category, t.amount)]

\* one transaction folded into its month's MonthlyData
AddToMonth(r, t) ==
    IF t.category = CategoryIncome THEN
        IF t.isAssetLiquidation
        THEN [r EXCEPT !.assetLiquidation = @ + t.amount]
        ELSE [r EXCEPT !.income = @ + t.amount]
    ELSE IF t.category = CategoryInvest THEN
        IF t.investSource = "cumulative"
        THEN [r EXCEPT !.actualInvested = @ + t.amount,
                       !.investedFromCumulative = @ + t.amount]
        ELSE [r EXCEPT !.actualInvested = @ + t.amount,
                       !.investedFromMonthly = @ + t.amount]
    ELSE
        LET flows ==
                IF t.fromSavings THEN [r EXCEPT !.savingsExpense = @ + t.amount]
                ELSE IF t.fromEmergency THEN [r EXCEPT !.emergencyExpense = @ + t.amount]
                ELSE [r EXCEPT !.expense = @ + t.amount,
                               !.installmentExpense =
                                   IF t.groupId # NoGroup THEN @ + t.amount ELSE @,
                               !.need = IF t.tag = "need" THEN @ + t.amount ELSE @,
                               !.want = IF t.tag = "want" THEN @ + t.amount ELSE @]
        IN  [flows EXCEPT !.categoryMap = AddCategory(@, t.category, t.amount)]

\* mutant: the month's bucket is started afresh for every transaction
AggregateTxFreshBucket(raw, t) ==
    LET monthKey == MonthKey(t.date)
    IN  [k \in (DOMAIN raw) \cup {monthKey} |->
            IF k = monthKey THEN AddToMonth(EmptyMonth, t) ELSE raw[k]]

\* the body of transactions.forEach: the bucket is created on demand
AggregateTx(raw, t) ==
    LET monthKey == MonthKey(t.date)
        bucket   == IF monthKey \in DOMAIN raw THEN raw[monthKey] ELSE EmptyMonth
    IN  [k \in (DOMAIN raw) \cup {monthKey} |->
            IF k = monthKey THEN AddToMonth(bucket, t) ELSE raw[k]]

RECURSIVE AggregateFrom(_, _, _)
AggregateFrom(raw, txs, i) ==
    IF i > Len(txs) THEN raw
    ELSE Strict(AggregateTx(raw, txs[i]), LAMBDA next : AggregateFrom(next, txs, i + 1))

\* transactions.forEach over the whole list, in list order
AggregateAll(raw, txs) == AggregateFrom(raw, txs, 1)

(***************************************************************************)
(* The per-month transition of the final evolution (src/src/App.tsx).      *)
(* run is the state threaded across months, raw the month's MonthlyData.   *)
(***************************************************************************)
\* const netIncome = income - expense
NetIncome(raw) == raw.income - raw.expense

\* cumulativeInvestable - investedFromCumulative
CumulativeRemaining(cumulativeInvestable, raw) ==
    FSub(cumulativeInvestable, FromInt(raw.investedFromCumulative))

\* mutant: every investment of the month is taken from the monthly budget
MonthlyRemainingAllInvested(monthlyMaxInvestable, raw) ==
    FSub(monthlyMaxInvestable, FromInt(raw.actualInvested))

\* monthlyMaxInvestable - investedFromMonthly
MonthlyRemaining(monthlyMaxInvestable, raw) ==
    FSub(monthlyMaxInvestable, FromInt(raw.investedFromMonthly))

\* cumulativeSavings + assetLiquidation - savingsExpense
SavingsAfterFlows(cumulativeSavings, raw) ==
    FSub(FAdd(cumulativeSavings, FromInt(raw.assetLiquidation)),
         FromInt(raw.savingsExpense))

\* mutant: the month's emergency expense is not taken from the fund
FundKept(runningEmergencyFund, raw) == runningEmergencyFund

\* runningEmergencyFund -= emergencyExpense
FundAfterExpense(runningEmergencyFund, raw) ==
    FSub(runningEmergencyFund, FromInt(raw.emergencyExpense))

\* mutant: the sign of the shortfall is kept
DeficitSigned(netIncome) == FromInt(netIncome)

\* const deficit = Math.abs(netIncome)
Deficit(netIncome) == FromInt(Abs(netIncome))

\* mutant: the outstanding deficit is never repaid
RepayAmountSkipped(availableSurplus, unfilledDeficit) == FZero

\* Math.min(availableSurplus, unfilledDeficit), taken when unfilledDeficit > 0
RepayAmount(availableSurplus, unfilledDeficit) ==
    IF FPos(unfilledDeficit) THEN FMin(availableSurplus, unfilledDeficit) ELSE FZero

\* mutant: the gap ignores what the fund already holds
EmergencyGapOfGoal(emergencyGoal, runningEmergencyFund) == FromInt(emergencyGoal)

\* Math.max(0, emergencyGoal - runningEmergencyFund)
EmergencyGap(emergencyGoal, runningEmergencyFund) ==
    FMax(FZero, FSub(FromInt(emergencyGoal), runningEmergencyFund))

\* Math.min(availableSurplus, emergencyGap), taken when both are positive
FillAmount(availableSurplus, emergencyGap) ==
    IF FPos(availableSurplus) /\ FPos(emergencyGap)
    THEN FMin(availableSurplus, emergencyGap) ELSE FZero

\* mutant: the two shares are swapped
SurplusForNextMonthTenth(availableSurplus) ==
    IF FPos(availableSurplus) THEN FMul(availableSurplus, Lit01) ELSE FZero

\* availableSurplus * 0.9, taken when availableSurplus > 0
SurplusForNextMonth(availableSurplus) ==
    IF FPos(availableSurplus) THEN FMul(availableSurplus, Lit09) ELSE FZero

\* availableSurplus * 0.1, taken when availableSurplus > 0
SavingsAddon(availableSurplus) ==
    IF FPos(availableSurplus) THEN FMul(availableSurplus, Lit01) ELSE FZero

\* cumulativeInvestable = currentMonthCumulativeRemaining + currentMonthMonthlyRemaining
NextCumulativeInvestable(cumulativeRemaining, monthlyRemaining) ==
    FAdd(cumulativeRemaining, monthlyRemaining)

MonthStep(run, raw, emergencyGoal) ==
    LET netIncome == NetIncome(raw)
        monthlyMaxInvestable == run.carryOverBudget
        cumulativeRemaining0 == CumulativeRemaining(run.cumulativeInvestable, raw)
        currentMonthMonthlyRemaining == MonthlyRemaining(monthlyMaxInvestable, raw)
        savings0 == SavingsAfterFlows(run.cumulativeSavings, raw)
        fund0 == FundAfterExpense(run.runningEmergencyFund, raw)
        isDeficit == netIncome < 0
        \* deficit branch
        deficit == Deficit(netIncome)
        \* surplus branch
        repayAmount == RepayAmount(FromInt(netIncome), run.unfilledDeficit)
        surplus1 == FSub(FromInt(netIncome), repayAmount)
        emergencyGap == EmergencyGap(emergencyGoal, fund0)
        fillAmount == FillAmount(surplus1, emergencyGap)
        availableSurplus == FSub(surplus1, fillAmount)
        \* both branches
        surplusForNextMonth ==
            IF isDeficit THEN FZero ELSE SurplusForNextMonth(availableSurplus)
        currentMonthSavingsAddon ==
            IF isDeficit THEN FZero ELSE SavingsAddon(availableSurplus)
        currentMonthCumulativeRemaining ==
            IF isDeficit THEN FSub(cumulativeRemaining0, deficit)
            ELSE FAdd(cumulativeRemaining0, repayAmount)
        unfilledDeficit ==
            IF isDeficit THEN FAdd(run.unfilledDeficit, deficit)
            ELSE FSub(run.unfilledDeficit, repayAmount)
        runningEmergencyFund ==
            IF isDeficit THEN fund0 ELSE FAdd(fund0, fillAmount)
        cumulativeSavings == FAdd(savings0, currentMonthSavingsAddon)
    IN  [run |->
            [cumulativeInvestable |->
                 NextCumulativeInvestable(currentMonthCumulativeRemaining,
                                          currentMonthMonthlyRemaining),
             cumulativeSavings |-> cumulativeSavings,
             runningEmergencyFund |-> runningEmergencyFund,
             carryOverBudget |-> surplusForNextMonth,
             unfilledDeficit |-> unfilledDeficit],
         snapshot |->
            [raw |-> raw,
             netIncome |-> netIncome,
             monthlyMaxInvestable |-> monthlyMaxInvestable,
             monthlyRemainingInvestable |-> currentMonthMonthlyRemaining,
             cumulativeAddOnAvailable |-> currentMonthCumulativeRemaining,
             deficitDeducted |-> IF isDeficit THEN deficit ELSE FZero,
             accumulatedDeficit |-> unfilledDeficit,
             savings |-> cumulativeSavings,
             emergencyFund |-> runningEmergencyFund,
             divertedToEmergency |-> IF isDeficit THEN FZero ELSE fillAmount,
             repaidDeficit |-> IF isDeficit THEN FZero ELSE repayAmount,
             capitalDivertedToEmergency |-> FZero,
             emergencyGoal |-> emergencyGoal],
         locals |->
            [entry |-> run,
             surplusForNextMonth |-> surplusForNextMonth,
             currentMonthSavingsAddon |-> currentMonthSavingsAddon]]

\* mutant: the configured carry-over budget is ignored
InitialRunNoCarryOver(stats) ==
    [cumulativeInvestable |-> FromInt(stats.available),
     cumulativeSavings |-> FromInt(stats.savings),
     runningEmergencyFund |-> FromInt(stats.emergencyCurrent),
     carryOverBudget |-> FZero,
     unfilledDeficit |-> FZero]

\* the threaded state before the first month
InitialRun(stats) ==
    [cumulativeInvestable |-> FromInt(stats.available),
     cumulativeSavings |-> FromInt(stats.savings),
     runningEmergencyFund |-> FromInt(stats.emergencyCurrent),
     carryOverBudget |-> FromInt(stats.initialInvestable),
     unfilledDeficit |-> FZero]

(***************************************************************************)
(* The per-month transition of the earlier evolution                       *)
(* (src/unnamed/part_000): no deficit repayment, no emergency expenses,    *)
(* and a transfer of capital into the emergency fund after the month.      *)
(***************************************************************************)
\* the empty MonthlyData record of the earlier evolution
EmptyMonthPart000 ==
    [income |-> 0, assetLiquidation |-> 0, expense |-> 0, savingsExpense |-> 0,
     actualInvested |-> 0, need |-> 0, want |-> 0, categoryMap |-> <<>>]

\* one transaction folded into its month's MonthlyData
AddToMonthPart000(r, t) ==
    IF t.category = CategoryIncome THEN
        IF t.isAssetLiquidation
        THEN [r EXCEPT !.assetLiquidation = @ + t.amount]
        ELSE [r EXCEPT !.income = @ + t.amount]
    ELSE IF t.category = CategoryInvest THEN
        [r EXCEPT !.actualInvested = @ + t.amount,
                  !.expense = IF t.tag = "invest_monthly" THEN @ + t.amount ELSE @]
    ELSE
        LET flows ==
                IF t.fromSavings THEN [r EXCEPT !.savingsExpense = @ + t.amount]
                ELSE [r EXCEPT !.expense = @ + t.amount,
                               !.need = IF t.tag = "need" THEN @ + t.amount ELSE @,
                               !.want = IF t.tag = "want" THEN @ + t.amount ELSE @]
        IN  [flows EXCEPT !.categoryMap = AddCategory(@, t.category, t.amount)]

RECURSIVE AggregateFromPart000(_, _, _)
AggregateFromPart000(r, txs, i) ==
    IF i > Len(txs) THEN r
    ELSE AggregateFromPart000(AddToMonthPart000(r, txs[i]), txs, i + 1)

\* transactions.forEach over the transactions of one month
AggregateMonthPart000(txs) == AggregateFromPart000(EmptyMonthPart000, txs, 1)

\* the goal the earlier evolution falls back to
DefaultEmergencyGoal == 60000

\* initialStats.emergencyGoal || 60000
EmergencyGoalPart000(stats) ==
    IF stats.emergencyGoal = 0 THEN DefaultEmergencyGoal ELSE stats.emergencyGoal

\* Math.min(realSurplus, emergencyGap), taken when emergencyGap > 0
DivertedPart000(realSurplus, emergencyGap) ==
    IF FPos(emergencyGap) THEN FMin(realSurplus, emergencyGap) ELSE FZero

\* mutant: the capital is never drawn on for the emergency fund
TransferAmountSkipped(cumulativeInvestable, remainingEmergencyGap) == FZero

\* Math.min(cumulativeInvestable, remainingEmergencyGap), taken when both are positive
TransferAmount(cumulativeInvestable, remainingEmergencyGap) ==
    IF FPos(remainingEmergencyGap) /\ FPos(cumulativeInvestable)
    THEN FMin(cumulativeInvestable, remainingEmergencyGap) ELSE FZero

MonthStepPart000(run, raw, emergencyGoal) ==
    LET netIncome == NetIncome(raw)
        monthlyMaxInvestable == run.carryOverBudget
        isSurplus == netIncome > 0
        \* Step A, surplus branch
        emergencyGap == EmergencyGap(emergencyGoal, run.runningEmergencyFund)
        divertedToEmergency ==
            IF isSurplus THEN DivertedPart000(FromInt(netIncome), emergencyGap)
            ELSE FZero
        realSurplus == FSub(FromInt(netIncome), divertedToEmergency)
        fundA == IF isSurplus THEN FAdd(run.runningEmergencyFund, divertedToEmergency)
                 ELSE run.runningEmergencyFund
        surplusForNextMonth ==
            IF isSurplus THEN SurplusForNextMonth(realSurplus) ELSE FZero
        currentMonthSavingsAddon ==
            IF isSurplus THEN SavingsAddon(realSurplus) ELSE FZero
        \* Step A, deficit branch
        deficit == Deficit(netIncome)
        investableA == IF isSurplus THEN run.cumulativeInvestable
                       ELSE FSub(run.cumulativeInvestable, deficit)
        \* Step B
        cumulativeSavings ==
            FSub(FAdd(FAdd(run.cumulativeSavings, currentMonthSavingsAddon),
                      FromInt(raw.assetLiquidation)),
                 FromInt(raw.savingsExpense))
        \* Step C
        investableC == FSub(FAdd(investableA, monthlyMaxInvestable),
                            FromInt(raw.actualInvested))
        \* Step D
        remainingEmergencyGap == EmergencyGap(emergencyGoal, fundA)
        transferAmount == TransferAmount(investableC, remainingEmergencyGap)
        cumulativeInvestable == FSub(investableC, transferAmount)
        runningEmergencyFund == FAdd(fundA, transferAmount)
    IN  [run |->
            [cumulativeInvestable |-> cumulativeInvestable,
             cumulativeSavings |-> cumulativeSavings,
             runningEmergencyFund |-> runningEmergencyFund,
             carryOverBudget |-> surplusForNextMonth,
             unfilledDeficit |-> run.unfilledDeficit],
         snapshot |->
            [raw |-> raw,
             netIncome |-> netIncome,
             monthlyMaxInvestable |-> monthlyMaxInvestable,
             monthlyRemainingInvestable |->
                 FSub(monthlyMaxInvestable, FromInt(raw.actualInvested)),
             cumulativeAddOnAvailable |-> FAdd(cumulativeInvestable, surplusForNextMonth),
             deficitDeducted |-> IF isSurplus THEN FZero ELSE deficit,
             accumulatedDeficit |-> run.unfilledDeficit,
             savings |-> cumulativeSavings,
             emergencyFund |-> runningEmergencyFund,
             divertedToEmergency |-> divertedToEmergency,
             capitalDivertedToEmergency |-> transferAmount,
             emergencyGoal |-> emergencyGoal],
         locals |->
            [entry |-> run,
             surplusForNextMonth |-> surplusForNextMonth,
             currentMonthSavingsAddon |-> currentMonthSavingsAddon]]

(***************************************************************************)
(* Month set.                                                              *)
(***************************************************************************)
\* curM++; if (curM > 12) { curM = 1; curY++ }
NextMonth(k) == IF k[2] + 1 > 12 THEN <<k[1] + 1, 1>> ELSE <<k[1], k[2] + 1>>

\* f with key k bound to v
Put(f, k, v) == [j \in (DOMAIN f) \cup {k} |-> IF j = k THEN v ELSE f[j]]

\* availableMonths: the months of the transactions and the current month
AvailableMonths(txs, now) == {MonthKey(txs[i].date) : i \in 1..Len(txs)} \cup {now}

\* availableMonths.forEach: an empty bucket per available month
EmptyBuckets(months) == [m \in months |-> EmptyMonth]

\* the while loop from the earliest month on: missing months get an empty bucket
RECURSIVE FillFrom(_, _, _)
FillFrom(raw, cur, max) ==
    IF KeyLess(max, cur) THEN raw
    ELSE FillFrom(IF cur \in DOMAIN raw THEN raw ELSE Put(raw, cur, EmptyMonth),
                  NextMonth(cur), max)

\* mutant: no month is added between the recorded ones
FillGapsSkipped(raw) == raw

\* gap filling between the earliest and the latest recorded month
FillGaps(raw) ==
    IF DOMAIN raw = {} THEN raw
    ELSE LET allRecordedMonths == SortKeys(DOMAIN raw)
         IN  FillFrom(raw, allRecordedMonths[1],
                      allRecordedMonths[Len(allRecordedMonths)])

\* sortedMonthsAsc.forEach from position i on
RECURSIVE ProcessFrom(_, _, _, _, _, _)
ProcessFrom(raw, keys, i, run, emergencyGoal, processed) ==
    IF i > Len(keys) THEN [run |-> run, processedMonthsData |-> processed]
    ELSE Strict(MonthStep(run, raw[keys[i]], emergencyGoal), LAMBDA step :
         Strict(Put(processed, keys[i], step.snapshot), LAMBDA done :
                ProcessFrom(raw, keys, i + 1, step.run, emergencyGoal, done)))

\* mutant: a month without snapshot shows the latest processed month
CurrentDataOfLatest(processed, run, selected, emergencyGoal) ==
    IF selected \in DOMAIN processed THEN processed[selected]
    ELSE processed[SortKeys(DOMAIN processed)[Cardinality(DOMAIN processed)]]

\* processedMonthsData[selectedMonth] || { ... }
CurrentData(processed, run, selected, emergencyGoal) ==
    IF selected \in DOMAIN processed THEN processed[selected]
    ELSE [raw |-> EmptyMonth,
          netIncome |-> 0,
          monthlyMaxInvestable |-> run.carryOverBudget,
          monthlyRemainingInvestable |-> FSub(run.carryOverBudget, FZero),
          cumulativeAddOnAvailable |-> run.cumulativeInvestable,
          deficitDeducted |-> FZero,
          accumulatedDeficit |-> run.unfilledDeficit,
          savings |-> run.cumulativeSavings,
          emergencyFund |-> run.runningEmergencyFund,
          divertedToEmergency |-> FZero,
          repaidDeficit |-> FZero,
          capitalDivertedToEmergency |-> FZero,
          emergencyGoal |-> emergencyGoal]

\* the stats memo as a function of its inputs
Stats(txs, stats, now, selected) ==
    Strict(FillGaps(AggregateAll(EmptyBuckets(AvailableMonths(txs, now)), txs)),
           LAMBDA raw :
    Strict(SortKeys(DOMAIN raw), LAMBDA keys :
    Strict(ProcessFrom(raw, keys, 1, InitialRun(stats), stats.emergencyGoal, <<>>),
           LAMBDA result :
           [processedMonthsData |-> result.processedMonthsData,
            currentData |-> CurrentData(result.processedMonthsData, result.run,
                                        selected, stats.emergencyGoal)])))

(***************************************************************************)
(* Bounds and input sets.                                                  *)
(***************************************************************************)
\* number of months the recurrence is run over
MaxMonths == 3

\* the first processed month of a run of the recurrence
StartMonth == <<2024, 11>>

\* configured balances: handleStatChange stores non-negative integers
InitialStatsSet ==
    { [available |-> 0, savings |-> 0, emergencyCurrent |-> 0,
       emergencyGoal |-> 0, initialInvestable |-> 0],
      [available |-> 5, savings |-> 2, emergencyCurrent |-> 4,
       emergencyGoal |-> 10, initialInvestable |-> 3],
      [available |-> 0, savings |-> 0, emergencyCurrent |-> 12,
       emergencyGoal |-> 10, initialInvestable |-> 0] }

\* a stored transaction, as handleSave writes it
Tx(id, date, category, amount, tag, investSource, fromSavings, fromEmergency, isAssetLiquidation) ==
    [id |-> id, date |-> date, category |-> category, amount |-> amount,
     type |-> IF category = CategoryIncome THEN "income" ELSE "expense",
     tag |-> tag, groupId |-> NoGroup, investSource |-> investSource,
     fromSavings |-> fromSavings, fromEmergency |-> fromEmergency,
     isAssetLiquidation |-> isAssetLiquidation]

Income(id, date, amount) ==
    Tx(id, date, CategoryIncome, amount, "income", "monthly", FALSE, FALSE, FALSE)

Liquidation(id, date, amount) ==
    Tx(id, date, CategoryIncome, amount, "income", "monthly", FALSE, FALSE, TRUE)

Expense(id, date, amount, tag) ==
    Tx(id, date, CategoryFood, amount, tag, "monthly", FALSE, FALSE, FALSE)

SavingsExpense(id, date, amount) ==
    Tx(id, date, CategoryFood, amount, "need", "monthly", TRUE, FALSE, FALSE)

EmergencyExpense(id, date, amount) ==
    Tx(id, date, CategoryFood, amount, "want", "monthly", FALSE, TRUE, FALSE)

InvestMonthly(id, date, amount) ==
    Tx(id, date, CategoryInvest, amount, "invest_monthly", "monthly",
       FALSE, FALSE, FALSE)

InvestCumulative(id, date, amount) ==
    Tx(id, date, CategoryInvest, amount, "invest_cumulative", "cumulative",
       FALSE, FALSE, FALSE)

\* the transactions of one month, for the months of a run of the recurrence
MonthBundles ==
    LET d == <<2024, 11, 15>>
    IN  { <<>>,
          <<Expense(1, d, 7, "need")>>,
          <<Income(1, d, 5)>>,
          <<Income(1, d, 5), Expense(2, d, 7, "want")>>,
          <<Income(1, d, 20)>>,
          <<Income(1, d, 20), Expense(2, d, 7, "need")>>,
          <<Expense(1, d, 7, "need"), Liquidation(2, d, 3),
            SavingsExpense(3, d, 1), EmergencyExpense(4, d, 2)>>,
          <<Income(1, d, 20), Expense(2, d, 7, "need"), Liquidation(3, d, 3),
            SavingsExpense(4, d, 1), EmergencyExpense(5, d, 2)>>,
          <<Expense(1, d, 7, "need"), InvestMonthly(2, d, 2),
            InvestCumulative(3, d, 1)>>,
          <<Income(1, d, 20), InvestMonthly(2, d, 2), InvestCumulative(3, d, 1)>> }

\* the MonthlyData records the aggregator produces for these months
RawData == {AggregateAll(<<>>, b)[<<2024, 11>>] : b \in MonthBundles \ {<<>>}}
               \cup {EmptyMonth}

(***************************************************************************)
(* Dates.  A date string 'YYYY-MM-DD' is the triple <<y, m, d>>; a Date     *)
(* object is its time value in hours since 1970-01-01T00:00Z.  The local    *)
(* time is UTC + timeZone hours, the same all year.                         *)
(***************************************************************************)
IsLeap(y) == (y % 4 = 0 /\ y % 100 # 0) \/ y % 400 = 0

DaysInMonth(y, m) ==
    IF m = 2 THEN (IF IsLeap(y) THEN 29 ELSE 28)
    ELSE IF m \in {4, 6, 9, 11} THEN 30 ELSE 31

\* days from 1970-01-01 to the date
DayNumber(date) ==
    LET y   == IF date[2] <= 2 THEN date[1] - 1 ELSE date[1]
        era == y \div 400
        yoe == y - era * 400
        mp  == IF date[2] > 2 THEN date[2] - 3 ELSE date[2] + 9
        doy == (153 * mp + 2) \div 5 + date[3] - 1
        doe == yoe * 365 + yoe \div 4 - yoe \div 100 + doy
    IN  era * 146097 + doe - 719468

\* the date that lies n days after 1970-01-01
DateOfDay(n) ==
    LET z   == n + 719468
        era == z \div 146097
        doe == z - era * 146097
        yoe == (doe - doe \div 1460 + doe \div 36524 - doe \div 146096) \div 365
        doy == doe - (365 * yoe + yoe \div 4 - yoe \div 100)
        mp  == (5 * doy + 2) \div 153
        d   == doy - (153 * mp + 2) \div 5 + 1
        m   == IF mp < 10 THEN mp + 3 ELSE mp - 9
        y   == yoe + era * 400
    IN  <<IF m <= 2 THEN y + 1 ELSE y, m, d>>

HoursPerDay == 24

\* new Date('YYYY-MM-DD'): midnight UTC of the date
DateFromString(date) == DayNumber(date) * HoursPerDay

\* getFullYear(), getMonth() + 1 and getDate() of a time value
LocalDate(time, zone) == DateOfDay((time + zone) \div HoursPerDay)

\* toISOString().split('T')[0]
ISODate(time) == DateOfDay(time \div HoursPerDay)

\* new Date(y, monthIndex, d): local midnight, a month index or a day out of
\* range carries over
DateFromLocal(y, monthIndex, d, zone) ==
    LET year  == y + monthIndex \div 12
        month == (monthIndex % 12) + 1
    IN  (DayNumber(<<year, month, 1>>) + d - 1) * HoursPerDay - zone

\* mutant: the date that ran over into the next month is kept
SetDateZeroSkipped(time, zone) == time

\* setDate(0): the last day of the month before the local month, same local time
SetDateZero(time, zone) ==
    LET local == LocalDate(time, zone)
        hour  == (time + zone) % HoursPerDay
    IN  (DayNumber(<<local[1], local[2], 1>>) - 1) * HoursPerDay + hour - zone

\* formatDateToLocal
FormatDateToLocal(time, zone) == LocalDate(time, zone)

(***************************************************************************)
(* The amount field.  A string is the sequence of its characters; the keys  *)
(* of the calculator that are modelled are the digits, + - *, AC, DEL, =.   *)
(***************************************************************************)
Digits == <<"0", "1", "2", "3", "4", "5", "6", "7", "8", "9">>

IsDigit(c) == \E i \in 1..Len(Digits) : Digits[i] = c

DigitValue(c) == (CHOOSE i \in 1..Len(Digits) : Digits[i] = c) - 1

IsOperator(c) == c \in {"+", "-", "*", "/"}

\* a number: an integer or NaN
Num(n) == [nan |-> FALSE, value |-> n]

NaN == [nan |-> TRUE, value |-> 0]

RECURSIVE DigitsValue(_, _)
\* the value of a string of digits read in the given base
DigitsValue(s, base) ==
    IF s = <<>> THEN 0
    ELSE DigitsValue(SubSeq(s, 1, Len(s) - 1), base) * base + DigitValue(s[Len(s)])

\* a numeric literal of the evaluated source text: a leading 0 followed by
\* octal digits only is read in base 8
LiteralValue(s) ==
    IF Len(s) > 1 /\ s[1] = "0" /\ \A i \in 1..Len(s) : DigitValue(s[i]) < 8
    THEN DigitsValue(s, 8)
    ELSE DigitsValue(s, 10)

RECURSIVE DecimalString(_)
\* String(n) of a non-negative integer
DecimalString(n) ==
    IF n < 10 THEN <<Digits[n + 1]>>
    ELSE DecimalString(n \div 10) \o <<Digits[(n % 10) + 1]>>

\* String(n) and n.toString() of a number
NumberToString(n) ==
    IF n.nan THEN <<"N", "a", "N">>
    ELSE IF n.value < 0 THEN <<"-">> \o DecimalString(-n.value)
    ELSE DecimalString(n.value)

\* value.replace(/[^0-9+\-*/.]/g, '')
CleanValue(s) == SelectSeq(s, LAMBDA c : IsDigit(c) \/ IsOperator(c) \/ c = ".")

\* a trailing operator is cut off, once
StripOperator(s) ==
    IF s # <<>> /\ IsOperator(s[Len(s)]) THEN SubSeq(s, 1, Len(s) - 1) ELSE s

\* the length of the run of digits that starts s
RECURSIVE LeadingDigits(_)
LeadingDigits(s) ==
    IF s = <<>> \/ ~IsDigit(s[1]) THEN 0 ELSE 1 + LeadingDigits(Tail(s))

\* outcomes of evaluating a text
Value(n) == [kind |-> "value", value |-> n, rest |-> <<>>]

SyntaxError == [kind |-> "error", value |-> 0, rest |-> <<>>]

Undefined == [kind |-> "undefined", value |-> 0, rest |-> <<>>]

RECURSIVE Product(_, _)
\* literal (* literal)* from the start of s, times acc: the value and the rest
Product(s, acc) ==
    LET n == LeadingDigits(s)
    IN  IF n = 0 THEN SyntaxError
        ELSE LET v    == acc * LiteralValue(SubSeq(s, 1, n))
                 rest == SubSeq(s, n + 1, Len(s))
             IN  IF rest # <<>> /\ rest[1] = "*"
                 THEN Product(Tail(rest), v)
                 ELSE [Value(v) EXCEPT !.rest = rest]

RECURSIVE Sum(_, _)
\* the rest of a sum whose value so far is acc
Sum(s, acc) ==
    IF s = <<>> THEN Value(acc)
    ELSE IF s[1] \notin {"+", "-"} THEN SyntaxError
    ELSE LET p == Product(Tail(s), 1)
         IN  IF p.kind = "error" THEN SyntaxError
             ELSE Sum(p.rest, IF s[1] = "+" THEN acc + p.value ELSE acc - p.value)

\* new Function('return ' + text)()
Evaluate(text) ==
    IF text = <<>> THEN Undefined
    ELSE IF text[1] \in {"+", "-"} THEN Sum(text, 0)
    ELSE LET p == Product(text, 1)
         IN  IF p.kind = "error" THEN SyntaxError ELSE Sum(p.rest, p.value)

\* Number(text) of a string: an optional sign and digits, the empty string is 0
NumberOfString(s) ==
    LET body == IF s # <<>> /\ s[1] \in {"+", "-"} THEN Tail(s) ELSE s
    IN  IF s = <<>> THEN Num(0)
        ELSE IF body = <<>> \/ LeadingDigits(body) # Len(body) THEN NaN
        ELSE IF s[1] = "-" THEN Num(-DigitsValue(body, 10)) ELSE Num(DigitsValue(body, 10))

\* Math.floor(Number(result)) of an evaluated text
FloorNumber(result) ==
    IF result.kind = "undefined" THEN NaN ELSE Num(result.value)

\* handleSave: Number(finalAmount) for the text of the amount field
FinalAmount(amount) ==
    LET result == Evaluate(StripOperator(CleanValue(amount)))
    IN  IF result.kind = "error" THEN NumberOfString(amount) ELSE FloorNumber(result)

\* handleCalcInput
HandleCalcInput(currentValue, key) ==
    IF key = "AC" THEN <<>>
    ELSE IF key = "DEL" THEN
        (IF Len(currentValue) > 0 THEN SubSeq(currentValue, 1, Len(currentValue) - 1)
         ELSE <<>>)
    ELSE IF key = "=" THEN
        LET cleanValue == StripOperator(CleanValue(currentValue))
            result     == Evaluate(cleanValue)
        IN  IF cleanValue = <<>> \/ result.kind = "error" THEN currentValue
            ELSE NumberToString(FloorNumber(result))
    ELSE IF currentValue = <<"0">> /\ ~IsOperator(key) /\ key # "." THEN <<key>>
    ELSE IF IsOperator(key) /\ currentValue # <<>> /\ IsOperator(currentValue[Len(currentValue)])
    THEN SubSeq(currentValue, 1, Len(currentValue) - 1) \o <<key>>
    ELSE currentValue \o <<key>>

RECURSIVE TypeKeys(_, _)
\* a series of calculator keys
TypeKeys(currentValue, keys) ==
    IF keys = <<>> THEN currentValue
    ELSE TypeKeys(HandleCalcInput(currentValue, Head(keys)), Tail(keys))

(***************************************************************************)
(* The entry form.  formData is modelled with the fields handleSave reads;  *)
(* installmentCalcType stays 'total' and perMonthInput stays empty.  A note *)
(* is <<text>> or, for an installment, <<text, i, count>>.                  *)
(***************************************************************************)
CategoryTraffic == "traffic"

\* getLocalDayString() in App.tsx, new Date().toISOString().split('T')[0] in part_000
Today(ev, time, zone) ==
    IF ev = "App.tsx" THEN FormatDateToLocal(time, zone) ELSE ISODate(time)

\* the form openAddMode sets
OpenAddForm(ev, time, zone) ==
    [date |-> Today(ev, time, zone), category |-> CategoryFood, amount |-> <<>>,
     note |-> "", tag |-> "need", type |-> "expense", isInstallment |-> FALSE,
     installmentCount |-> <<"3">>, investSource |-> "monthly", fromSavings |-> FALSE,
     fromEmergency |-> FALSE, isAssetLiquidation |-> FALSE]

\* the form openEditMode sets for a stored transaction
OpenEditForm(trans) ==
    [date |-> trans.date, category |-> trans.category,
     amount |-> NumberToString(Num(trans.amount)), note |-> trans.note[1],
     tag |-> trans.tag, type |-> trans.type, isInstallment |-> FALSE,
     installmentCount |-> <<"3">>,
     investSource |-> IF trans.category = CategoryInvest
                      THEN (IF trans.tag = "invest_cumulative" THEN "cumulative"
                            ELSE "monthly")
                      ELSE "monthly",
     fromSavings |-> trans.fromSavings, fromEmergency |-> trans.fromEmergency,
     isAssetLiquidation |-> trans.isAssetLiquidation]

\* whether the control of a form operation is rendered
Visible(ev, f, editing, op) ==
    CASE op[1] \in {"expense", "income", "date", "note", "key"} -> TRUE
      [] op[1] = "category" ->
           IF f.type = "income" THEN op[2] = CategoryIncome ELSE op[2] # CategoryIncome
      [] op[1] = "investSource" -> f.type = "expense" /\ f.category = CategoryInvest
      [] op[1] \in {"tag", "fromSavings"} ->
           f.type = "expense" /\ f.category # CategoryInvest
      [] op[1] = "fromEmergency" ->
           ev = "App.tsx" /\ f.type = "expense" /\ f.category # CategoryInvest
      [] op[1] = "isAssetLiquidation" -> f.type # "expense"
      [] op[1] = "isInstallment" ->
           /\ f.type = "expense" /\ f.category # CategoryInvest /\ editing = 0
           /\ ~f.fromSavings /\ ~f.fromEmergency
      [] op[1] = "installmentCount" ->
           /\ f.type = "expense" /\ f.category # CategoryInvest /\ editing = 0
           /\ ~f.fromSavings /\ ~f.fromEmergency /\ f.isInstallment

\* the setFormData call of a form operation
Apply(ev, f, op) ==
    CASE op[1] = "expense" ->
           [f EXCEPT !.type = "expense", !.category = CategoryFood,
                     !.tag = IF ev = "App.tsx" THEN "need" ELSE @,
                     !.investSource = "monthly", !.isAssetLiquidation = FALSE]
      [] op[1] = "income" ->
           [f EXCEPT !.type = "income", !.category = CategoryIncome, !.tag = "income",
                     !.investSource = "monthly", !.fromSavings = FALSE,
                     !.fromEmergency = FALSE]
      [] op[1] = "date" -> [f EXCEPT !.date = op[2]]
      [] op[1] = "category" -> [f EXCEPT !.category = op[2]]
      [] op[1] = "investSource" -> [f EXCEPT !.investSource = op[2]]
      [] op[1] = "tag" -> [f EXCEPT !.tag = op[2]]
      [] op[1] = "fromSavings" ->
           [f EXCEPT !.fromSavings = ~@, !.fromEmergency = FALSE, !.isInstallment = FALSE]
      [] op[1] = "fromEmergency" ->
           [f EXCEPT !.fromEmergency = ~@, !.fromSavings = FALSE, !.isInstallment = FALSE]
      [] op[1] = "isAssetLiquidation" -> [f EXCEPT !.isAssetLiquidation = ~@]
      [] op[1] = "note" -> [f EXCEPT !.note = op[2]]
      [] op[1] = "isInstallment" -> [f EXCEPT !.isInstallment = ~@]
      [] op[1] = "installmentCount" -> [f EXCEPT !.installmentCount = op[2]]
      [] op[1] = "key" -> [f EXCEPT !.amount = HandleCalcInput(@, op[2])]

RECURSIVE CanFill(_, _, _, _)
\* every operation of the series finds its control rendered
CanFill(ev, f, editing, ops) ==
    ops = <<>> \/ ( /\ Visible(ev, f, editing, Head(ops))
                    /\ CanFill(ev, Apply(ev, f, Head(ops)), editing, Tail(ops)) )

RECURSIVE Fill(_, _, _)
\* the form after a series of form operations
Fill(ev, f, ops) ==
    IF ops = <<>> THEN f ELSE Fill(ev, Apply(ev, f, Head(ops)), Tail(ops))

(***************************************************************************)
(* handleSave and confirmDelete.                                            *)
(***************************************************************************)
\* mutant: the tag of the form is stored as it is
FinalTagOfForm(f) == f.tag

\* the tag that is stored: forced by the categories income and investment
FinalTag(f) ==
    IF f.category = CategoryIncome THEN "income"
    ELSE IF f.category = CategoryInvest
    THEN (IF f.investSource = "cumulative" THEN "invest_cumulative" ELSE "invest_monthly")
    ELSE f.tag

\* whether the new record is split into installments
ShouldInstallment(ev, f) ==
    /\ ~f.fromSavings
    /\ ev = "App.tsx" => ~f.fromEmergency
    /\ ~f.isAssetLiquidation
    /\ f.isInstallment
    /\ f.type = "expense"
    /\ f.category # CategoryInvest
    /\ ~NumberOfString(f.installmentCount).nan
    /\ NumberOfString(f.installmentCount).value > 1

\* the date of installment i (from 0) of a record dated date
InstallmentDate(ev, date, i, zone) ==
    IF ev = "App.tsx" THEN
        LET startDay == date[3]
            nextDate == DateFromLocal(date[1], date[2] - 1 + i, date[3], zone)
        IN  FormatDateToLocal(IF LocalDate(nextDate, zone)[3] # startDay
                              THEN SetDateZero(nextDate, zone) ELSE nextDate, zone)
    ELSE
        LET startDate == LocalDate(DateFromString(date), zone)
            startDay  == startDate[3]
            nextDate  == DateFromLocal(startDate[1], startDate[2] - 1 + i, startDay, zone)
        IN  ISODate(IF LocalDate(nextDate, zone)[3] # startDay
                    THEN SetDateZero(nextDate, zone) ELSE nextDate)

\* the date of a cohort member after the edited member went from oldDate to newDate
ShiftedDate(ev, date, oldDate, newDate, zone) ==
    LET timeDiff == DateFromString(newDate) - DateFromString(oldDate)
        shifted  == DateFromString(date) + timeDiff
    IN  IF ev = "App.tsx" THEN FormatDateToLocal(shifted, zone) ELSE ISODate(shifted)

\* the stored record with the given id
Find(txs, id) == txs[CHOOSE i \in 1..Len(txs) : txs[i].id = id]

\* { ...t, ...formData, tag, amount, flags } of a record that is in no cohort
EditSingle(ev, t, f, amount) ==
    [t EXCEPT !.date = f.date, !.category = f.category, !.amount = amount,
              !.type = f.type, !.tag = FinalTag(f), !.note = <<f.note>>,
              !.investSource = f.investSource, !.fromSavings = f.fromSavings,
              !.fromEmergency = IF ev = "App.tsx" THEN f.fromEmergency ELSE @,
              !.isAssetLiquidation = f.isAssetLiquidation]

\* a member of the edited cohort after the save
EditCohortMember(ev, t, original, f, amount, zone) ==
    LET newDate ==
            IF t.date # f.date /\ t.id = original.id THEN f.date
            ELSE IF t.date # f.date
            THEN ShiftedDate(ev, t.date, original.date, f.date, zone)
            ELSE t.date
    IN  IF ev = "App.tsx" THEN
            IF t.id = original.id
            THEN [t EXCEPT !.date = newDate, !.category = f.category, !.amount = amount,
                           !.tag = FinalTag(f), !.note = <<f.note>>,
                           !.fromSavings = f.fromSavings,
                           !.fromEmergency = f.fromEmergency,
                           !.isAssetLiquidation = f.isAssetLiquidation]
            ELSE [t EXCEPT !.date = newDate, !.category = f.category,
                           !.tag = FinalTag(f), !.fromSavings = f.fromSavings,
                           !.fromEmergency = f.fromEmergency,
                           !.isAssetLiquidation = f.isAssetLiquidation]
        ELSE [t EXCEPT !.date = IF t.id = original.id THEN f.date ELSE newDate,
                       !.category = f.category, !.amount = amount,
                       !.tag = FinalTag(f), !.fromSavings = f.fromSavings,
                       !.isAssetLiquidation = f.isAssetLiquidation]

\* the list after saving the form of the record that is edited
SaveEdit(ev, txs, editing, f, zone) ==
    LET amount == FinalAmount(f.amount).value
    IN  IF \A i \in 1..Len(txs) : txs[i].id # editing THEN txs
        ELSE LET original == Find(txs, editing)
             IN  IF original.groupId # NoGroup
                 THEN [i \in 1..Len(txs) |->
                         IF txs[i].groupId = original.groupId
                         THEN EditCohortMember(ev, txs[i], original, f, amount, zone)
                         ELSE txs[i]]
                 ELSE [i \in 1..Len(txs) |->
                         IF txs[i].id = editing THEN EditSingle(ev, txs[i], f, amount)
                         ELSE txs[i]]

\* mutant: the next id is taken from the length of the list
BaseIdFromLength(txs) == Len(txs) + 1

\* Math.max(...ids) + 1, or 1 for the empty list
BaseId(txs) ==
    IF Len(txs) > 0
    THEN (CHOOSE n \in { txs[i].id : i \in 1..Len(txs) } :
              \A i \in 1..Len(txs) : txs[i].id <= n) + 1
    ELSE 1

\* { id, ...formData, ... }: the fields of a Transaction that a new record gets
NewRecord(id, f, date, amount, note, groupId) ==
    [id |-> id, date |-> date, category |-> f.category, amount |-> amount,
     type |-> f.type, tag |-> FinalTag(f), note |-> note, groupId |-> groupId,
     investSource |-> f.investSource, fromSavings |-> f.fromSavings,
     fromEmergency |-> f.fromEmergency, isAssetLiquidation |-> f.isAssetLiquidation]

\* mutant: the remainder of the division is left out
FirstInstallmentWithoutRemainder(totalAmount, count) == totalAmount \div count

\* the amount of the first installment: the share plus the remainder
FirstInstallment(totalAmount, count) ==
    LET perMonthAmount == totalAmount \div count
        remainder      == totalAmount - perMonthAmount * count
    IN  perMonthAmount + remainder

\* the installments of a new record, the first one first
Installments(ev, baseId, f, totalAmount, time, zone) ==
    LET count   == NumberOfString(f.installmentCount).value
        groupId == <<baseId, time>>
    IN  [k \in 1..count |->
            [NewRecord(baseId + k - 1, f, InstallmentDate(ev, f.date, k - 1, zone),
                       IF k = 1 THEN FirstInstallment(totalAmount, count)
                       ELSE totalAmount \div count,
                       <<f.note, k, count>>, groupId)
             EXCEPT !.fromSavings = FALSE,
                    !.fromEmergency = IF ev = "App.tsx" THEN FALSE ELSE @,
                    !.isAssetLiquidation = FALSE]]

\* the list after saving the form of a new record
SaveCreate(ev, txs, f, time, zone) ==
    LET baseId      == BaseId(txs)
        totalAmount == FinalAmount(f.amount).value
    IN  IF ShouldInstallment(ev, f)
        THEN Installments(ev, baseId, f, totalAmount, time, zone) \o txs
        ELSE <<NewRecord(baseId, f, f.date, totalAmount, <<f.note>>, NoGroup)>> \o txs

\* mutant: the installments of the deleted record's cohort go with it
DeleteCohort(txs, id) ==
    SelectSeq(txs, LAMBDA t : /\ t.id # id
                              /\ \/ t.groupId = NoGroup
                                 \/ \A i \in 1..Len(txs) :
                                      txs[i].id = id => txs[i].groupId # t.groupId)

\* transactions.filter(t => t.id !== id)
DeleteId(txs, id) == SelectSeq(txs, LAMBDA t : t.id # id)

RECURSIVE InsertByDateDesc(_, _)
\* t behind the records of sorted that are not older than it
InsertByDateDesc(sorted, t) ==
    IF sorted = <<>> THEN <<t>>
    ELSE IF DateFromString(Head(sorted).date) < DateFromString(t.date)
         THEN <<t>> \o sorted
         ELSE <<Head(sorted)>> \o InsertByDateDesc(Tail(sorted), t)

RECURSIVE SortFrom(_, _, _)
SortFrom(txs, i, sorted) ==
    IF i > Len(txs) THEN sorted
    ELSE SortFrom(txs, i + 1, InsertByDateDesc(sorted, txs[i]))

\* transactions.sort((a,b) => new Date(b.date).getTime() - new Date(a.date).getTime()):
\* the array itself, newest date first, equal dates in their old order
SortByDateDesc(txs) == SortFrom(txs, 1, <<>>)

\* the save button of the form is disabled: the amount exceeds what the
\* selected month's stats leave in the pool it is paid from
IsSubmitDisabled(txs, stats, now, selected, editing, f) ==
    LET amount == NumberOfString(f.amount)
        invest == f.type = "expense" /\ f.category = CategoryInvest
    IN  /\ f.fromSavings \/ f.fromEmergency \/ invest
        /\ ~amount.nan
        /\ Strict(Stats(txs, stats, now, selected).currentData, LAMBDA investment :
           LET edited     == editing # 0 /\ \E i \in 1..Len(txs) : txs[i].id = editing
               original   == Find(txs, editing)
               addBack(source) ==
                   IF edited /\ original.category = CategoryInvest
                             /\ original.investSource = source
                   THEN FromInt(original.amount) ELSE FZero
               effectiveMonthlyLimit ==
                   FAdd(investment.monthlyRemainingInvestable, addBack("monthly"))
               effectiveCumulativeLimit ==
                   FAdd(investment.cumulativeAddOnAvailable, addBack("cumulative"))
           IN  \/ f.fromSavings /\ FLess(investment.savings, FromInt(amount.value))
               \/ f.fromEmergency /\ FLess(investment.emergencyFund, FromInt(amount.value))
               \/ /\ invest /\ f.investSource = "monthly"
                  /\ FLess(effectiveMonthlyLimit, FromInt(amount.value))
               \/ /\ invest /\ f.investSource = "cumulative"
                  /\ FLess(effectiveCumulativeLimit, FromInt(amount.value)))

(***************************************************************************)
(* State.                                                                  *)
(***************************************************************************)
VARIABLES
    evolution,             \* which evolution's recurrence runs
    transactions,          \* the transaction list
    nowMonth,              \* getLocalMonthString()
    selectedMonth,         \* the month on display
    pc,                    \* where the stats computation stands
    position,              \* transactions aggregated so far
    currentData,           \* the snapshot handed to the views
    initialStats,          \* StatsData
    monthlyRawData,        \* month key -> MonthlyData
    cumulativeInvestable,  \* the state threaded across months
    cumulativeSavings,
    runningEmergencyFund,
    carryOverBudget,
    unfilledDeficit,
    processedMonthsData,   \* month key -> ProcessedMonthData
    monthLocals,           \* month key -> the loop body's locals of that month
    formData,              \* the entry form
    editingId,             \* id of the record that is edited, 0 for null
    activeTab,             \* the view on screen
    clock,                 \* the time, in hours since 1970-01-01T00:00Z
    timeZone               \* the browser's UTC offset in hours

vars == <<evolution, transactions, nowMonth, selectedMonth, pc, position, currentData,
          initialStats, monthlyRawData, cumulativeInvestable, cumulativeSavings,
          runningEmergencyFund, carryOverBudget, unfilledDeficit,
          processedMonthsData, monthLocals, formData, editingId, activeTab, clock,
          timeZone>>

\* the form and its surroundings
form == <<formData, editingId, activeTab, clock, timeZone>>

\* what the stats computation reads and leaves alone
inputs == <<evolution, transactions, nowMonth, selectedMonth, initialStats, form>>

\* noon of 2024-01-31, local time
StartTime(zone) == DateFromLocal(2024, 0, 31, zone) + 12

\* the form as it is before it is opened, the dashboard on screen
FormIdle ==
    /\ timeZone = 8
    /\ clock = StartTime(8)
    /\ formData = OpenAddForm("App.tsx", StartTime(8), 8)
    /\ editingId = 0
    /\ activeTab = "dashboard"

Run ==
    [cumulativeInvestable |-> cumulativeInvestable,
     cumulativeSavings |-> cumulativeSavings,
     runningEmergencyFund |-> runningEmergencyFund,
     carryOverBudget |-> carryOverBudget,
     unfilledDeficit |-> unfilledDeficit]

\* lines 416-422: the threaded state is initialised from initialStats
StartRun(stats) ==
    /\ cumulativeInvestable = InitialRun(stats).cumulativeInvestable
    /\ cumulativeSavings = InitialRun(stats).cumulativeSavings
    /\ runningEmergencyFund = InitialRun(stats).runningEmergencyFund
    /\ carryOverBudget = InitialRun(stats).carryOverBudget
    /\ unfilledDeficit = InitialRun(stats).unfilledDeficit
    /\ processedMonthsData = <<>>
    /\ monthLocals = <<>>

\* one iteration of sortedMonthsAsc.forEach, for month key `month`
Iterate(month, raw, step) ==
    /\ cumulativeInvestable' = step.run.cumulativeInvestable
    /\ cumulativeSavings' = step.run.cumulativeSavings
    /\ runningEmergencyFund' = step.run.runningEmergencyFund
    /\ carryOverBudget' = step.run.carryOverBudget
    /\ unfilledDeficit' = step.run.unfilledDeficit
    /\ processedMonthsData' = Put(processedMonthsData, month, step.snapshot)
    /\ monthLocals' = Put(monthLocals, month, step.locals)

\* the months processed so far, in ascending order
Order == SortKeys(DOMAIN processedMonthsData)

Processed == Len(Order)

\* the recurrence is fed its months directly: no transaction list is read
MonthsGiven ==
    /\ transactions = <<>>
    /\ nowMonth = StartMonth
    /\ selectedMonth = StartMonth
    /\ pc = "recurrence"
    /\ position = 0
    /\ currentData = <<>>
    /\ FormIdle

(***************************************************************************)
(* Spec: the recurrence of the final evolution over consecutive months,    *)
(* each month's MonthlyData being any record of RawData.                   *)
(***************************************************************************)
Init ==
    /\ evolution = "App.tsx"
    /\ MonthsGiven
    /\ initialStats \in InitialStatsSet
    /\ monthlyRawData = <<>>
    /\ StartRun(initialStats)

ProcessMonth ==
    /\ evolution = "App.tsx"
    /\ pc = "recurrence"
    /\ Processed < MaxMonths
    /\ \E raw \in RawData :
         LET month == IF Processed = 0 THEN StartMonth
                      ELSE NextMonth(Order[Processed])
         IN  /\ monthlyRawData' = Put(monthlyRawData, month, raw)
             /\ Iterate(month, raw, MonthStep(Run, raw, initialStats.emergencyGoal))
             /\ UNCHANGED <<inputs, pc, position, currentData>>

Next == ProcessMonth

Spec == Init /\ [][Next]_vars

(***************************************************************************)
(* SpecScenario: the recurrence over months that each hold one income and  *)
(* one expense of the four-month scenario, all initial balances 0 and      *)
(* emergencyGoal 60000.                                                    *)
(***************************************************************************)
ScenarioMonths == 4

ScenarioStats ==
    [available |-> 0, savings |-> 0, emergencyCurrent |-> 0,
     emergencyGoal |-> 60000, initialInvestable |-> 0]

\* the MonthlyData of a month with one income and one expense
IncomeExpenseMonth(income, expense) ==
    AggregateAll(<<>>, <<Income(1, <<2024, 11, 15>>, income),
                         Expense(2, <<2024, 11, 15>>, expense, "need")>>)[<<2024, 11>>]

Scenario ==
    << IncomeExpenseMonth(50000, 30000), IncomeExpenseMonth(50000, 20000),
       IncomeExpenseMonth(40000, 60000), IncomeExpenseMonth(60000, 10000) >>

InitScenario ==
    /\ evolution = "App.tsx"
    /\ MonthsGiven
    /\ initialStats = ScenarioStats
    /\ monthlyRawData = <<>>
    /\ StartRun(initialStats)

ProcessScenarioMonth ==
    /\ pc = "recurrence"
    /\ Processed < ScenarioMonths
    /\ \E k \in 1..Len(Scenario) :
         LET month == IF Processed = 0 THEN StartMonth
                      ELSE NextMonth(Order[Processed])
         IN  /\ monthlyRawData' = Put(monthlyRawData, month, Scenario[k])
             /\ Iterate(month, Scenario[k],
                        MonthStep(Run, Scenario[k], initialStats.emergencyGoal))
             /\ UNCHANGED <<inputs, pc, position, currentData>>

NextScenario == ProcessScenarioMonth

SpecScenario == InitScenario /\ [][NextScenario]_vars

(***************************************************************************)
(* SpecEvolutions: the recurrence of either evolution over consecutive     *)
(* months.                                                                 *)
(***************************************************************************)
\* the transactions of one month, for the earlier evolution
MonthBundlesPart000 ==
    LET d == <<2024, 11, 15>>
    IN  { <<>>,
          <<Expense(1, d, 7, "need")>>,
          <<Income(1, d, 5)>>,
          <<Income(1, d, 20)>>,
          <<Income(1, d, 20), Expense(2, d, 7, "want")>>,
          <<Expense(1, d, 7, "need"), InvestCumulative(2, d, 1)>>,
          <<Income(1, d, 20), InvestMonthly(2, d, 2), Liquidation(3, d, 3),
            SavingsExpense(4, d, 1)>> }

\* the MonthlyData records the earlier evolution's aggregator produces for them
RawDataPart000 == {AggregateMonthPart000(b) : b \in MonthBundlesPart000}

InitEvolutions ==
    /\ evolution \in {"App.tsx", "part_000"}
    /\ MonthsGiven
    /\ initialStats \in InitialStatsSet
    /\ monthlyRawData = <<>>
    /\ StartRun(initialStats)

ProcessMonthPart000 ==
    /\ evolution = "part_000"
    /\ pc = "recurrence"
    /\ Processed < MaxMonths
    /\ \E raw \in RawDataPart000 :
         LET month == IF Processed = 0 THEN StartMonth
                      ELSE NextMonth(Order[Processed])
         IN  /\ monthlyRawData' = Put(monthlyRawData, month, raw)
             /\ Iterate(month, raw,
                        MonthStepPart000(Run, raw, EmergencyGoalPart000(initialStats)))
             /\ UNCHANGED <<inputs, pc, position, currentData>>

NextEvolutions == ProcessMonth \/ ProcessMonthPart000

SpecEvolutions == InitEvolutions /\ [][NextEvolutions]_vars

(***************************************************************************)
(* SpecStats: the stats memo of the final evolution from a transaction     *)
(* list: buckets for the available months, one transaction aggregated at a *)
(* time, gap filling, the recurrence month by month, and the projection of *)
(* the selected month.                                                     *)
(***************************************************************************)
\* length of the transaction list
MaxTx == 2

\* stored transactions to build lists from
TxPool ==
    { Income(1, <<2025, 1, 10>>, 20),
      Expense(2, <<2025, 1, 20>>, 7, "need"),
      InvestMonthly(3, <<2025, 1, 5>>, 2),
      InvestCumulative(4, <<2025, 1, 28>>, 1),
      SavingsExpense(5, <<2024, 12, 28>>, 1) }

\* the lists of distinct stored transactions, in any order
TxLists ==
    UNION { { s \in [1..n -> TxPool] : \A i, j \in 1..n : i # j => s[i] # s[j] }
            : n \in 0..MaxTx }

NowMonths == { <<2024, 11>>, <<2025, 1>>, <<2025, 2>> }

SelectedMonths == { <<2025, 1>>, <<2024, 6>> }

StatsInputs ==
    { [available |-> 0, savings |-> 0, emergencyCurrent |-> 0,
       emergencyGoal |-> 10, initialInvestable |-> 0],
      [available |-> 5, savings |-> 2, emergencyCurrent |-> 4,
       emergencyGoal |-> 10, initialInvestable |-> 3] }

InitStats ==
    /\ evolution = "App.tsx"
    /\ FormIdle
    /\ transactions \in TxLists
    /\ nowMonth \in NowMonths
    /\ selectedMonth \in SelectedMonths
    /\ initialStats \in StatsInputs
    /\ monthlyRawData = EmptyBuckets(AvailableMonths(transactions, nowMonth))
    /\ position = 0
    /\ pc = "aggregate"
    /\ currentData = <<>>
    /\ StartRun(initialStats)

\* mutant: a transaction paid from savings is passed over
AggregateNextSkippingSavings ==
    /\ pc = "aggregate"
    /\ position < Len(transactions)
    /\ monthlyRawData' =
          IF transactions[position + 1].fromSavings THEN monthlyRawData
          ELSE AggregateTx(monthlyRawData, transactions[position + 1])
    /\ position' = position + 1
    /\ UNCHANGED <<inputs, pc, currentData, cumulativeInvestable, cumulativeSavings,
                   runningEmergencyFund, carryOverBudget, unfilledDeficit,
                   processedMonthsData, monthLocals>>

\* transactions.forEach: the next transaction of the list
AggregateNext ==
    /\ pc = "aggregate"
    /\ position < Len(transactions)
    /\ monthlyRawData' = AggregateTx(monthlyRawData, transactions[position + 1])
    /\ position' = position + 1
    /\ UNCHANGED <<inputs, pc, currentData, cumulativeInvestable, cumulativeSavings,
                   runningEmergencyFund, carryOverBudget, unfilledDeficit,
                   processedMonthsData, monthLocals>>

\* gap filling, once the whole list is aggregated
FillGapMonths ==
    /\ pc = "aggregate"
    /\ position = Len(transactions)
    /\ monthlyRawData' = FillGaps(monthlyRawData)
    /\ pc' = "process"
    /\ UNCHANGED <<inputs, position, currentData, cumulativeInvestable,
                   cumulativeSavings, runningEmergencyFund, carryOverBudget,
                   unfilledDeficit, processedMonthsData, monthLocals>>

\* sortedMonthsAsc.forEach: the earliest month not yet processed
ProcessNextMonth ==
    /\ pc = "process"
    /\ DOMAIN monthlyRawData # DOMAIN processedMonthsData
    /\ LET month == SortKeys(DOMAIN monthlyRawData \ DOMAIN processedMonthsData)[1]
       IN  Iterate(month, monthlyRawData[month],
                   MonthStep(Run, monthlyRawData[month], initialStats.emergencyGoal))
    /\ UNCHANGED <<inputs, pc, position, currentData, monthlyRawData>>

\* currentData, once every month is processed
Project ==
    /\ pc = "process"
    /\ DOMAIN monthlyRawData = DOMAIN processedMonthsData
    /\ currentData' = CurrentData(processedMonthsData, Run, selectedMonth,
                                  initialStats.emergencyGoal)
    /\ pc' = "done"
    /\ UNCHANGED <<inputs, position, monthlyRawData, cumulativeInvestable,
                   cumulativeSavings, runningEmergencyFund, carryOverBudget,
                   unfilledDeficit, processedMonthsData, monthLocals>>

NextStats == AggregateNext \/ FillGapMonths \/ ProcessNextMonth \/ Project

SpecStats == InitStats /\ [][NextStats]_vars

(***************************************************************************)
(* The transaction store: the form is opened, filled and saved, records are *)
(* deleted.  The operations on the open form are inputs of the save: the    *)
(* user fills the form with one of the series below.  Forms whose amount    *)
(* would be stored as NaN are not entered, and in part_000 no form is paid  *)
(* from savings.  A handler runs from a rendered view: after the history    *)
(* tab became active its render, which sorts the stored array, comes first. *)
(***************************************************************************)
\* saves per run
MaxSaves == 2

\* UTC offsets of the browser, in hours
TimeZones == {-5, 8}

\* balances configured in the settings
StoreStats ==
    [available |-> 5, savings |-> 2, emergencyCurrent |-> 4, emergencyGoal |-> 10,
     initialInvestable |-> 3]

\* series of operations on the open form
FormSessions ==
    << <<>>,
       << <<"key", "5">>, <<"key", "-">>, <<"key", "9">> >>,
       << <<"key", "1">>, <<"key", "0">>, <<"isInstallment">> >>,
       << <<"date", <<2023, 12, 31>>>>, <<"key", "7">>, <<"key", "=">>, <<"isInstallment">>,
          <<"installmentCount", <<"2">>>> >>,
       << <<"income">>, <<"isAssetLiquidation">>, <<"key", "AC">>, <<"key", "3">> >>,
       << <<"category", CategoryInvest>>, <<"investSource", "cumulative">>,
          <<"key", "AC">>, <<"key", "1">>, <<"key", "+">>, <<"key", "1">> >>,
       << <<"category", CategoryTraffic>>, <<"tag", "want">>, <<"key", "DEL">>,
          <<"key", "6">>, <<"note", "bus">> >>,
       << <<"date", <<2024, 2, 29>>>> >>,
       << <<"category", CategoryFood>> >>,
       << <<"fromSavings">> >> >>

\* the forms the user can have on screen when pressing save
FilledForms(ev, f, editing) ==
    { Fill(ev, f, FormSessions[k]) :
        k \in { j \in 1..Len(FormSessions) : CanFill(ev, f, editing, FormSessions[j]) } }

InitStore ==
    /\ evolution \in {"App.tsx", "part_000"}
    /\ timeZone \in TimeZones
    /\ clock = StartTime(timeZone)
    /\ transactions = <<>>
    /\ nowMonth = <<2024, 1>>
    /\ selectedMonth = <<2024, 1>>
    /\ initialStats = StoreStats
    /\ formData = OpenAddForm(evolution, clock, timeZone)
    /\ editingId = 0
    /\ activeTab = "dashboard"
    /\ monthlyRawData = <<>>
    /\ position = 0
    /\ pc = "idle"
    /\ currentData = <<>>
    /\ StartRun(initialStats)

\* what the store's handlers leave alone
statsState == <<evolution, nowMonth, selectedMonth, initialStats, timeZone, pc, position,
                currentData, monthlyRawData, cumulativeInvestable, cumulativeSavings,
                runningEmergencyFund, carryOverBudget, unfilledDeficit,
                processedMonthsData, monthLocals>>

\* the view on screen has been rendered: handlers run from a rendered view,
\* and only the render of the history view touches the state
Rendered == activeTab = "history" => transactions = SortByDateDesc(transactions)

\* openAddMode
OpenAddMode ==
    /\ Rendered
    /\ editingId' = 0
    /\ formData' = OpenAddForm(evolution, clock, timeZone)
    /\ activeTab' = "form"
    /\ UNCHANGED <<statsState, transactions, clock>>

\* openEditMode(trans)
OpenEditMode ==
    /\ Rendered
    /\ \E i \in 1..Len(transactions) :
         /\ editingId' = transactions[i].id
         /\ formData' = OpenEditForm(transactions[i])
    /\ activeTab' = "form"
    /\ UNCHANGED <<statsState, transactions, clock>>

\* handleSave on the form the user has filled
HandleSave ==
    /\ activeTab = "form"
    /\ clock < StartTime(timeZone) + MaxSaves
    /\ \E f \in FilledForms(evolution, formData, editingId) :
         /\ f.amount # <<>>
         /\ ~FinalAmount(f.amount).nan
         /\ evolution = "part_000" => ~f.fromSavings
         /\ evolution = "App.tsx" =>
              ~IsSubmitDisabled(transactions, initialStats, nowMonth, selectedMonth,
                                editingId, f)
         /\ formData' = f
         /\ transactions' =
              IF editingId # 0
              THEN SaveEdit(evolution, transactions, editingId, f, timeZone)
              ELSE SaveCreate(evolution, transactions, f, clock, timeZone)
    /\ activeTab' = "history"
    /\ clock' = clock + 1
    /\ UNCHANGED <<statsState, editingId>>

\* confirmDelete for the record the delete modal names
ConfirmDelete ==
    /\ Rendered
    /\ \E i \in 1..Len(transactions) :
         LET id == transactions[i].id
         IN  /\ transactions' = DeleteId(transactions, id)
             /\ activeTab' = IF activeTab = "form" /\ editingId = id THEN "history"
                             ELSE activeTab
    /\ UNCHANGED <<statsState, formData, editingId, clock>>

\* the render of the history view after the history tab became active: the
\* sort rearranges the array held in state
RenderHistoryView ==
    /\ ~Rendered
    /\ transactions' = SortByDateDesc(transactions)
    /\ UNCHANGED <<statsState, formData, editingId, activeTab, clock>>

NextStore ==
    OpenAddMode \/ OpenEditMode \/ HandleSave \/ ConfirmDelete \/ RenderHistoryView

SpecStore == InitStore /\ [][NextStore]_vars

(***************************************************************************)
(* Properties of the recurrence.                                           *)
(***************************************************************************)
Months == DOMAIN processedMonthsData

Snap(m) == processedMonthsData[m]

Locals(m) == monthLocals[m]

Entry(m) == monthLocals[m].entry

Goal == FromInt(initialStats.emergencyGoal)

\* what is left of a month's net income after repayment and emergency top-up
Residual(m) ==
    IF Snap(m).netIncome < 0 THEN FZero
    ELSE FSub(FSub(FromInt(Snap(m).netIncome), Snap(m).repaidDeficit),
              Snap(m).divertedToEmergency)

\* C1: a month that ends with a positive surplusForNextMonth or a positive
\* savings add-on leaves no outstanding deficit and an emergency fund that
\* has reached its goal
AllocationPriority ==
    \A m \in Months :
        (FPos(Locals(m).surplusForNextMonth) \/ FPos(Locals(m).currentMonthSavingsAddon))
            => /\ Snap(m).accumulatedDeficit = FZero
               /\ FLeq(Goal, Snap(m).emergencyFund)

\* a month entered with a deficit and an emergency gap that still splits
AllocationPriorityWitness ==
    \E m \in Months :
        /\ FPos(Entry(m).unfilledDeficit)
        /\ FLess(Entry(m).runningEmergencyFund, Goal)
        /\ FPos(Snap(m).repaidDeficit)
        /\ FPos(Snap(m).divertedToEmergency)
        /\ FPos(Locals(m).surplusForNextMonth)
        /\ FPos(Locals(m).currentMonthSavingsAddon)

\* C2: a month entered with unfilledDeficit = D > 0 and netIncome = N > D
\* repays D, leaves no deficit, and
\* surplusForNextMonth + savingsAddon = N - D - divertedToEmergency
RepaymentPrecedence ==
    \A m \in Months :
        (FPos(Entry(m).unfilledDeficit)
         /\ FLess(Entry(m).unfilledDeficit, FromInt(Snap(m).netIncome)))
            => /\ Snap(m).repaidDeficit = Entry(m).unfilledDeficit
               /\ Snap(m).accumulatedDeficit = FZero
               /\ FAdd(Locals(m).surplusForNextMonth, Locals(m).currentMonthSavingsAddon)
                    = FSub(FSub(FromInt(Snap(m).netIncome), Entry(m).unfilledDeficit),
                           Snap(m).divertedToEmergency)

\* C3: with netIncome >= 0, no deficit on entry and no emergency gap,
\* surplusForNextMonth + savingsAddon = netIncome exactly; in general the two
\* are the 0.9 and 0.1 shares of the residual and sum to it
SplitConservation ==
    \A m \in Months :
        /\ Locals(m).surplusForNextMonth = SurplusForNextMonth(Residual(m))
        /\ Locals(m).currentMonthSavingsAddon = SavingsAddon(Residual(m))
        /\ FAdd(Locals(m).surplusForNextMonth, Locals(m).currentMonthSavingsAddon)
             = Residual(m)
        /\ (/\ Snap(m).netIncome >= 0
            /\ Entry(m).unfilledDeficit = FZero
            /\ FLeq(Goal, FSub(Entry(m).runningEmergencyFund,
                               FromInt(Snap(m).raw.emergencyExpense))))
            => FAdd(Locals(m).surplusForNextMonth, Locals(m).currentMonthSavingsAddon)
                 = FromInt(Snap(m).netIncome)

\* C5: a month with netIncome < 0 records the shortfall, takes it out of the
\* cumulative pool shown, adds it to the outstanding deficit and allocates
\* nothing; savings and emergency fund move only by the flagged flows
DeficitMonth ==
    \A m \in Months :
        Snap(m).netIncome < 0 =>
            /\ Snap(m).deficitDeducted = FromInt(-Snap(m).netIncome)
            /\ Snap(m).cumulativeAddOnAvailable
                 = FSub(FSub(Entry(m).cumulativeInvestable,
                             FromInt(Snap(m).raw.investedFromCumulative)),
                        FromInt(-Snap(m).netIncome))
            /\ Snap(m).accumulatedDeficit
                 = FAdd(Entry(m).unfilledDeficit, FromInt(-Snap(m).netIncome))
            /\ Snap(m).repaidDeficit = FZero
            /\ Snap(m).divertedToEmergency = FZero
            /\ Locals(m).surplusForNextMonth = FZero
            /\ Locals(m).currentMonthSavingsAddon = FZero
            /\ Snap(m).savings
                 = FSub(FAdd(Entry(m).cumulativeSavings,
                             FromInt(Snap(m).raw.assetLiquidation)),
                        FromInt(Snap(m).raw.savingsExpense))
            /\ Snap(m).emergencyFund
                 = FSub(Entry(m).runningEmergencyFund,
                        FromInt(Snap(m).raw.emergencyExpense))

\* a deficit month with pool flows, entered with a budget, capital and an
\* emergency gap
DeficitMonthWitness ==
    \E m \in Months :
        /\ Snap(m).netIncome < 0
        /\ Snap(m).raw.assetLiquidation > 0
        /\ Snap(m).raw.savingsExpense > 0
        /\ Snap(m).raw.emergencyExpense > 0
        /\ FPos(Entry(m).carryOverBudget)
        /\ FPos(Entry(m).cumulativeInvestable)
        /\ FLess(Entry(m).runningEmergencyFund, Goal)

\* C8: the first processed month's monthlyMaxInvestable is the configured
\* initialInvestable, every later month's is the surplusForNextMonth of the
\* month before it, which is the 0.9 share of that month's residual
CarryOverThreading ==
    \A i \in 1..Processed :
        /\ i = 1 => Snap(Order[i]).monthlyMaxInvestable
                      = FromInt(initialStats.initialInvestable)
        /\ i > 1 => /\ Snap(Order[i]).monthlyMaxInvestable
                         = Locals(Order[i - 1]).surplusForNextMonth
                    /\ Locals(Order[i - 1]).surplusForNextMonth
                         = SurplusForNextMonth(Residual(Order[i - 1]))
        /\ i = Processed => carryOverBudget = Locals(Order[i]).surplusForNextMonth

\* three months: a configured budget, then a split, then a month without one
CarryOverThreadingWitness ==
    /\ Processed >= 3
    /\ FPos(Snap(Order[1]).monthlyMaxInvestable)
    /\ FPos(Snap(Order[2]).monthlyMaxInvestable)
    /\ Snap(Order[3]).monthlyMaxInvestable = FZero
    /\ Snap(Order[2]).monthlyMaxInvestable # Snap(Order[1]).monthlyMaxInvestable

\* the first n processed months are the first n months of the scenario
ScenarioPrefix(n) ==
    /\ Processed >= n
    /\ \A i \in 1..n : Snap(Order[i]).raw = Scenario[i]

\* C6: the four-month scenario (50000, 30000), (50000, 20000),
\* (40000, 60000), (60000, 10000) from zero balances with goal 60000 yields
\* the stated diversions, balances, deficit, repayment and 18000 / 2000 split
ScenarioResult ==
    /\ ScenarioPrefix(1) =>
         LET m == Order[1]
         IN  /\ Snap(m).divertedToEmergency = FromInt(20000)
             /\ Snap(m).emergencyFund = FromInt(20000)
             /\ Locals(m).surplusForNextMonth = FZero
             /\ Locals(m).currentMonthSavingsAddon = FZero
    /\ ScenarioPrefix(2) =>
         LET m == Order[2]
         IN  /\ Snap(m).monthlyMaxInvestable = FZero
             /\ Snap(m).divertedToEmergency = FromInt(30000)
             /\ Snap(m).emergencyFund = FromInt(50000)
             /\ Residual(m) = FZero
             /\ Locals(m).surplusForNextMonth = FZero
             /\ Locals(m).currentMonthSavingsAddon = FZero
    /\ ScenarioPrefix(3) =>
         LET m == Order[3]
         IN  /\ Snap(m).deficitDeducted = FromInt(20000)
             /\ Snap(m).cumulativeAddOnAvailable
                  = FSub(Entry(m).cumulativeInvestable, FromInt(20000))
             /\ Snap(m).cumulativeAddOnAvailable = FromInt(-20000)
             /\ Snap(m).accumulatedDeficit = FromInt(20000)
             /\ Snap(m).savings = Snap(Order[2]).savings
             /\ Snap(m).emergencyFund = Snap(Order[2]).emergencyFund
    /\ ScenarioPrefix(4) =>
         LET m == Order[4]
         IN  /\ Snap(m).repaidDeficit = FromInt(20000)
             /\ Snap(m).cumulativeAddOnAvailable
                  = FAdd(Entry(m).cumulativeInvestable, FromInt(20000))
             /\ Snap(m).accumulatedDeficit = FZero
             /\ Snap(m).divertedToEmergency = FromInt(10000)
             /\ Snap(m).emergencyFund = FromInt(60000)
             /\ Locals(m).surplusForNextMonth = FromInt(18000)
             /\ Processed = 4 => carryOverBudget = FromInt(18000)
             /\ Locals(m).currentMonthSavingsAddon = FromInt(2000)
             /\ Snap(m).savings = FromInt(2000)

\* the four months of the scenario have been processed in order
ScenarioResultWitness == ScenarioPrefix(4)

\* the emergency fund as a month's top-up finds it
FundBeforeTopUp(m) ==
    IF evolution = "part_000" THEN Entry(m).runningEmergencyFund
    ELSE FundAfterExpense(Entry(m).runningEmergencyFund, Snap(m).raw)

\* C4: in either evolution a month that diverts surplus or capital to the
\* emergency fund leaves the fund at or below its goal, and a fund at or
\* below the goal before a month's top-up is at or below it afterwards
EmergencyCap ==
    \A m \in Months :
        LET goal == FromInt(Snap(m).emergencyGoal)
        IN  /\ (FPos(Snap(m).divertedToEmergency)
                \/ FPos(Snap(m).capitalDivertedToEmergency))
                  => FLeq(Snap(m).emergencyFund, goal)
            /\ FLeq(FundBeforeTopUp(m), goal) => FLeq(Snap(m).emergencyFund, goal)

\* a month of the earlier evolution whose surplus and capital together fill
\* the fund exactly to its goal
EmergencyCapWitness ==
    \E m \in Months :
        /\ evolution = "part_000"
        /\ FPos(Snap(m).divertedToEmergency)
        /\ FPos(Snap(m).capitalDivertedToEmergency)
        /\ FLess(Snap(m).capitalDivertedToEmergency,
                 FAdd(Entry(m).cumulativeInvestable, Entry(m).carryOverBudget))
        /\ Snap(m).emergencyFund = FromInt(Snap(m).emergencyGoal)

\* the orders the transaction list can be given in
ListOrders(txs) ==
    { [i \in 1..Len(txs) |-> txs[p[i]]] : p \in Permutations(1..Len(txs)) }

\* the earliest month that holds a transaction
EarliestTxMonth(txs) == SortKeys({MonthKey(txs[i].date) : i \in 1..Len(txs)})[1]

\* the current month does not precede the earliest transaction month
NotBeforeTransactions(now) ==
    transactions # <<>> /\ ~KeyLess(now, EarliestTxMonth(transactions))

\* two runs agree on the snapshot of every month both of them have
AgreeOnSharedMonths(p, q) == \A m \in (DOMAIN p) \cap (DOMAIN q) : p[m] = q[m]

\* the snapshots do not depend on the list order or on the selected month
OrderAndSelectionIndependent ==
    /\ \A txs \in ListOrders(transactions) :
         Stats(txs, initialStats, nowMonth, selectedMonth).processedMonthsData
           = processedMonthsData
    /\ \A selected \in SelectedMonths :
         Stats(transactions, initialStats, nowMonth, selected).processedMonthsData
           = processedMonthsData
    /\ currentData = Stats(transactions, initialStats, nowMonth, selectedMonth).currentData

\* C7 (amended): the snapshots are a function of the transaction list, the
\* initial balances and the current month; they do not depend on the list
\* order or the selected month, and two current months that are both not
\* earlier than the earliest transaction month give the same snapshot for
\* every month both runs have
Determinism ==
    pc = "done" =>
        /\ OrderAndSelectionIndependent
        /\ \A now \in NowMonths :
             (NotBeforeTransactions(now) /\ NotBeforeTransactions(nowMonth))
                => AgreeOnSharedMonths(
                       Stats(transactions, initialStats, now, selectedMonth).processedMonthsData,
                       processedMonthsData)

\* a finished run over two transactions of one month and one of another,
\* with the current month after the first transaction month
DeterminismWitness ==
    /\ pc = "done"
    /\ Len(transactions) >= 2
    /\ \E i, j \in 1..Len(transactions) :
         /\ i # j
         /\ MonthKey(transactions[i].date) = MonthKey(transactions[j].date)
         /\ transactions[i].category # transactions[j].category
    /\ NotBeforeTransactions(nowMonth)
    /\ nowMonth # EarliestTxMonth(transactions)
    /\ \E now \in NowMonths : now # nowMonth /\ NotBeforeTransactions(now)
    /\ FPos(processedMonthsData[EarliestTxMonth(transactions)].monthlyMaxInvestable)

\* C7: the snapshots do not depend on the list order, on the selected month
\* or on the current month: any two current months give the same snapshot
\* for every month both runs have
DeterminismAnyCurrentMonth ==
    pc = "done" =>
        /\ OrderAndSelectionIndependent
        /\ \A now \in NowMonths :
             AgreeOnSharedMonths(
                 Stats(transactions, initialStats, now, selectedMonth).processedMonthsData,
                 processedMonthsData)

\* the transactions of the list dated in month m
InMonth(m) ==
    {transactions[i] : i \in {j \in 1..Len(transactions) :
                                MonthKey(transactions[j].date) = m}}

RECURSIVE SumOfAmounts(_)
SumOfAmounts(S) ==
    IF S = {} THEN 0
    ELSE LET t == CHOOSE x \in S : TRUE IN t.amount + SumOfAmounts(S \ {t})

\* ordinary expenses of month m not paid from savings or the emergency fund
OrdinaryExpenses(m) ==
    {t \in InMonth(m) : /\ t.category \notin {CategoryIncome, CategoryInvest}
                        /\ ~t.fromSavings /\ ~t.fromEmergency}

\* regular income of month m
RegularIncome(m) ==
    {t \in InMonth(m) : t.category = CategoryIncome /\ ~t.isAssetLiquidation}

MonthlyInvestments(m) ==
    {t \in InMonth(m) : t.category = CategoryInvest /\ t.investSource # "cumulative"}

CumulativeInvestments(m) ==
    {t \in InMonth(m) : t.category = CategoryInvest /\ t.investSource = "cumulative"}

Without(txs, i) == SubSeq(txs, 1, i - 1) \o SubSeq(txs, i + 1, Len(txs))

\* C10: a month's monthlyRemainingInvestable is monthlyMaxInvestable less the
\* monthly-sourced investments and stays the same without the month's
\* cumulative-sourced ones; cumulativeAddOnAvailable is the capital on entry
\* less the cumulative-sourced investments (and the month's deficit, plus its
\* repayment) and stays the same without the month's monthly-sourced ones
PoolIsolation ==
    /\ \A m \in Months :
         /\ Snap(m).monthlyRemainingInvestable
              = FSub(Snap(m).monthlyMaxInvestable,
                     FromInt(SumOfAmounts(MonthlyInvestments(m))))
         /\ Snap(m).cumulativeAddOnAvailable
              = LET left == FSub(Entry(m).cumulativeInvestable,
                                 FromInt(SumOfAmounts(CumulativeInvestments(m))))
                IN  IF Snap(m).netIncome < 0
                    THEN FSub(left, Snap(m).deficitDeducted)
                    ELSE FAdd(left, Snap(m).repaidDeficit)
    /\ pc = "done" =>
         \A i \in 1..Len(transactions) :
            LET t == transactions[i]
                m == MonthKey(t.date)
                other == Stats(Without(transactions, i), initialStats, nowMonth,
                               selectedMonth).processedMonthsData
            IN  (t.category = CategoryInvest /\ m \in DOMAIN other) =>
                    IF t.investSource = "cumulative"
                    THEN other[m].monthlyRemainingInvestable
                           = Snap(m).monthlyRemainingInvestable
                    ELSE other[m].cumulativeAddOnAvailable
                           = Snap(m).cumulativeAddOnAvailable

\* a finished run with a month that invests from both pools and keeps its
\* place in the month set without either investment
PoolIsolationWitness ==
    /\ pc = "done"
    /\ \E m \in Months :
         /\ MonthlyInvestments(m) # {}
         /\ CumulativeInvestments(m) # {}
         /\ FPos(Snap(m).monthlyMaxInvestable)
         /\ FPos(Entry(m).cumulativeInvestable)
         /\ ~KeyLess(m, nowMonth)

\* C17: with emergencyGoal <= 0 the emergency gap of every month is 0 and
\* nothing is diverted to the emergency fund, whatever the transactions
NoDiversionWithoutGoal ==
    initialStats.emergencyGoal <= 0 =>
        \A m \in Months :
            /\ EmergencyGap(initialStats.emergencyGoal, FundBeforeTopUp(m)) = FZero
            /\ Snap(m).divertedToEmergency = FZero

\* months counted from year 0
MonthIndex(k) == k[1] * 12 + k[2] - 1

\* the calendar months from the earliest to the latest of a set of months
MonthRange(S) ==
    LET lo == CHOOSE a \in S : \A b \in S : MonthIndex(a) <= MonthIndex(b)
        hi == CHOOSE a \in S : \A b \in S : MonthIndex(b) <= MonthIndex(a)
    IN  { k \in { <<y, m>> : y \in lo[1]..hi[1], m \in 1..12 } :
            MonthIndex(lo) <= MonthIndex(k) /\ MonthIndex(k) <= MonthIndex(hi) }

\* after gap filling the month set is the full range of the transaction
\* months and the current month; the months are processed in ascending
\* order from the earliest one with none skipped
MonthSetGapFree ==
    pc \in {"process", "done"} =>
        /\ DOMAIN monthlyRawData = MonthRange(AvailableMonths(transactions, nowMonth))
        /\ \A m \in DOMAIN monthlyRawData \ AvailableMonths(transactions, nowMonth) :
             monthlyRawData[m] = EmptyMonth
        /\ Months \subseteq DOMAIN monthlyRawData
        /\ \A i \in 1..Processed :
             MonthIndex(Order[i])
               = MonthIndex(SortKeys(DOMAIN monthlyRawData)[1]) + i - 1
        /\ pc = "done" => Months = DOMAIN monthlyRawData

\* the steps the computation still has to take: transactions to aggregate,
\* the gap filling, months to process, the projection
StepsLeft ==
    CASE pc = "aggregate" ->
           (Len(transactions) - position) + 1
             + Cardinality(MonthRange(AvailableMonths(transactions, nowMonth))) + 1
      [] pc = "process" -> Cardinality(DOMAIN monthlyRawData \ Months) + 1
      [] pc = "done" -> 0

\* an unfinished computation can take a step: the guard of one of the
\* steps holds
NeverStuck ==
    /\ pc = "aggregate" => position < Len(transactions) \/ position = Len(transactions)
    /\ pc = "process" =>
          \/ DOMAIN monthlyRawData # DOMAIN processedMonthsData
          \/ DOMAIN monthlyRawData = DOMAIN processedMonthsData
    /\ pc \in {"aggregate", "process", "done"}

\* C18: the months the recurrence processes are exactly every calendar month
\* from the earliest to the latest of the transaction months and the current
\* month, ascending with none skipped, and the computation comes to its end:
\* it is never stuck before the end and every step leaves fewer steps to take
GapFreeMonths ==
    /\ [] (MonthSetGapFree /\ NeverStuck)
    /\ [][StepsLeft' < StepsLeft]_vars

\* a finished run whose month set crosses a year boundary and has a month
\* without transactions strictly inside it
GapFreeMonthsWitness ==
    /\ pc = "done"
    /\ Processed >= 3
    /\ Order[1][1] < Order[Processed][1]
    /\ \E i \in 2..(Processed - 1) :
         /\ Order[i] \notin AvailableMonths(transactions, nowMonth)
         /\ processedMonthsData[Order[i]].raw = EmptyMonth

\* the six fields a transaction's amount can be added to
FlowFields ==
    {"income", "assetLiquidation", "expense", "savingsExpense", "emergencyExpense",
     "actualInvested"}

RECURSIVE SumOver(_, _)
\* the sum of f over a finite set
SumOver(S, f) ==
    IF S = {} THEN 0
    ELSE LET x == CHOOSE y \in S : TRUE IN f[x] + SumOver(S \ {x}, f)

\* the sum of the six fields of a bucket
FlowTotal(r) == SumOver(FlowFields, r)

\* the amounts of the transactions aggregated so far that are dated in month k
AggregatedAmount(k) ==
    SumOver({ i \in 1..position : MonthKey(transactions[i].date) = k },
            [i \in 1..position |-> transactions[i].amount])

\* every bucket holds the amounts of its own month's transactions, and the six
\* fields over all months add up to the sum of all aggregated amounts
NothingDropped ==
    /\ \A i \in 1..position : MonthKey(transactions[i].date) \in DOMAIN monthlyRawData
    /\ \A k \in DOMAIN monthlyRawData : FlowTotal(monthlyRawData[k]) = AggregatedAmount(k)
    /\ SumOver(DOMAIN monthlyRawData, [k \in DOMAIN monthlyRawData |-> FlowTotal(monthlyRawData[k])])
         = SumOver(1..position, [i \in 1..position |-> transactions[i].amount])

\* folding one transaction adds its amount to exactly one of the six fields of
\* its own month's bucket and leaves the six fields of every other bucket alone
OneFieldOfOwnMonth ==
    position' = position + 1 =>
        LET t == transactions[position + 1]
            k == MonthKey(t.date)
            before == IF k \in DOMAIN monthlyRawData THEN monthlyRawData[k] ELSE EmptyMonth
        IN  /\ k \in DOMAIN monthlyRawData'
            /\ \E f \in FlowFields :
                 /\ monthlyRawData'[k][f] = before[f] + t.amount
                 /\ \A g \in FlowFields \ {f} : monthlyRawData'[k][g] = before[g]
            /\ \A j \in DOMAIN monthlyRawData \ {k} :
                 \A g \in FlowFields : monthlyRawData'[j][g] = monthlyRawData[j][g]

\* C19: each transaction contributes its amount to exactly one of income,
\* assetLiquidation, expense, savingsExpense, emergencyExpense or
\* actualInvested of its own month's bucket, and the six fields summed over
\* all months equal the sum of all transaction amounts
AggregationDropsNothing == [] NothingDropped /\ [][OneFieldOfOwnMonth]_vars

\* a finished run over transactions of two months, one of them paid from savings
AggregationDropsNothingWitness ==
    /\ pc = "done"
    /\ Len(transactions) >= 2
    /\ \E i, j \in 1..Len(transactions) :
         /\ transactions[i].fromSavings
         /\ MonthKey(transactions[i].date) # MonthKey(transactions[j].date)
         /\ monthlyRawData[MonthKey(transactions[i].date)].savingsExpense
              = transactions[i].amount
         /\ FlowTotal(monthlyRawData[MonthKey(transactions[j].date)]) > 0

(***************************************************************************)
(* Properties of the transaction store.                                    *)
(***************************************************************************)
\* a step of handleSave: only a save moves the clock
IsSave == clock' = clock + 1

\* a save that creates records
IsCreate == IsSave /\ editingId = 0

\* a save that splits the new record into installments
IsSplit == IsCreate /\ ShouldInstallment(evolution, formData')

\* a save of the form of a stored record that belongs to a cohort
IsCohortEdit ==
    /\ IsSave
    /\ editingId # 0
    /\ \E i \in 1..Len(transactions) :
         transactions[i].id = editingId /\ transactions[i].groupId # NoGroup

\* the record that is edited
Edited == Find(transactions, editingId)

\* the positions of the records of a cohort
Members(txs, groupId) == { i \in 1..Len(txs) : txs[i].groupId = groupId }

RECURSIVE AmountSum(_)
\* the sum of the amounts of a list of records
AmountSum(txs) == IF txs = <<>> THEN 0 ELSE Head(txs).amount + AmountSum(Tail(txs))

\* the split of total T into N installments: N records in front of the old
\* list with one groupId of their own, floor(T/N) on all but the first, the
\* remainder added to the first, T in sum
SplitAddsUp ==
    IsSplit =>
        LET N   == NumberOfString(formData'.installmentCount).value
            T   == FinalAmount(formData'.amount).value
            new == SubSeq(transactions', 1, N)
        IN  /\ N > 1
            /\ Len(transactions') = Len(transactions) + N
            /\ SubSeq(transactions', N + 1, Len(transactions')) = transactions
            /\ \A k \in 1..N :
                 /\ new[k].groupId # NoGroup
                 /\ new[k].groupId = new[1].groupId
                 /\ \A i \in 1..Len(transactions) :
                      transactions[i].groupId # new[k].groupId
            /\ \A k \in 2..N : new[k].amount = T \div N
            /\ new[1].amount = T \div N + (T - N * (T \div N))
            /\ AmountSum(new) = T

ClampedDate(date, i) ==
    LET index == date[1] * 12 + (date[2] - 1) + i
        year  == index \div 12
        month == (index % 12) + 1
        last  == DaysInMonth(year, month)
    IN  <<year, month, IF date[3] < last THEN date[3] ELSE last>>

\* the installments of a split are dated in consecutive months on the day of
\* the form's date, clamped to the last day of a shorter month
InstallmentsMonthly ==
    IsSplit /\ evolution = "App.tsx" =>
        LET N == NumberOfString(formData'.installmentCount).value
        IN  /\ \A k \in 1..N :
                 transactions'[k].date = ClampedDate(formData'.date, k - 1)
            /\ \A k \in 1..(N - 1) :
                 MonthIndex(MonthKey(transactions'[k + 1].date))
                   = MonthIndex(MonthKey(transactions'[k].date)) + 1

\* C14: installment i (0 <= i < N) of a record dated on day d of month m is
\* dated in month m + i, N consecutive distinct months, on day min(d, days in
\* that month): a day past the end of a month is clamped back, never rolled
\* forward
InstallmentDates == [][InstallmentsMonthly]_vars

\* installments of 31 January 2024: 29 February and 31 March follow
InstallmentDatesWitness ==
    /\ evolution = "App.tsx"
    /\ activeTab = "history"
    /\ editingId = 0
    /\ formData.isInstallment
    /\ formData.date = <<2024, 1, 31>>
    /\ Len(transactions) = 3
    /\ transactions[1].date = <<2024, 1, 31>>
    /\ transactions[2].date = <<2024, 2, 29>>
    /\ transactions[3].date = <<2024, 3, 31>>
    /\ \A k \in 1..3 : transactions[k].note = <<"", k, 3>>

\* the ids of the stored records
Ids(txs) == { txs[i].id : i \in 1..Len(txs) }

\* the largest id in store, 0 for the empty list
MaxId(txs) ==
    IF txs = <<>> THEN 0 ELSE CHOOSE n \in Ids(txs) : \A k \in Ids(txs) : k <= n

\* no two stored records share an id
IdsDistinct ==
    \A i, j \in 1..Len(transactions) :
        i # j => transactions[i].id # transactions[j].id

\* a create gives the new records the ids that follow the largest id in
\* store, from 1 for the empty store; an edit or a delete keeps the ids
IdsFollowMax ==
    /\ IsCreate =>
         LET n == Len(transactions') - Len(transactions)
         IN  /\ n >= 1
             /\ \A k \in 1..n : transactions'[k].id = MaxId(transactions) + k
             /\ Ids(transactions') = Ids(transactions) \cup
                                       (MaxId(transactions) + 1)..(MaxId(transactions) + n)
    /\ ~IsCreate => Ids(transactions') \subseteq Ids(transactions)
    /\ IsSave /\ editingId # 0 => Ids(transactions') = Ids(transactions)

\* C15: after any sequence of single creates, installment splits, edits and
\* deletes no two stored transactions share an id; a new record gets the
\* largest id plus one (1 for the empty store), a split N consecutive ids
UniqueIds == [] IdsDistinct /\ [][IdsFollowMax]_vars

\* a split stored as ids 1, 2, 3, its second record deleted, and a single
\* record created after that with id 4
UniqueIdsWitness ==
    /\ Ids(transactions) = {1, 3, 4}
    /\ Len(transactions) = 3
    /\ transactions[1].id = 4
    /\ transactions[1].groupId = NoGroup
    /\ \E i, j \in 2..3 :
         /\ transactions[i].id = 1
         /\ transactions[j].id = 3
         /\ transactions[i].groupId # NoGroup
         /\ transactions[i].groupId = transactions[j].groupId

\* C20: after any sequence of creates and edits, cohort edits included, every
\* stored transaction of the income category has the tag 'income' and every
\* stored transaction of the investment category has the tag 'invest_monthly'
\* or 'invest_cumulative'
TagForcing ==
    \A i \in 1..Len(transactions) :
        /\ transactions[i].category = CategoryIncome => transactions[i].tag = "income"
        /\ transactions[i].category = CategoryInvest =>
             transactions[i].tag \in {"invest_monthly", "invest_cumulative"}

\* an installment cohort that was edited into the investment category from
\* the cumulative pool, next to none: every member carries the forced tag
TagForcingWitness ==
    /\ activeTab = "history"
    /\ editingId # 0
    /\ formData.category = CategoryInvest
    /\ formData.tag \in {"need", "want"}
    /\ \E i, j \in 1..Len(transactions) :
         /\ i # j
         /\ transactions[i].id = editingId
         /\ transactions[i].groupId # NoGroup
         /\ transactions[j].groupId = transactions[i].groupId
         /\ transactions[i].category = CategoryInvest
         /\ transactions[j].category = CategoryInvest
         /\ transactions[i].tag = "invest_cumulative"
         /\ transactions[j].tag = "invest_cumulative"

\* C16: every stored transaction, created or edited, each installment
\* included, has an amount of at least 0, whatever amount text the form and
\* the calculator produce
AmountsNotNegative ==
    \A i \in 1..Len(transactions) : transactions[i].amount >= 0

\* a cohort edit writes the form's category, the forced tag and the three
\* source-pool flags to every member, changes amount and note of no member
\* but the edited one, and keeps the cohort and the rest of the list
CohortEditWrites ==
    IsCohortEdit =>
        LET cohort == Members(transactions, Edited.groupId)
            f      == formData'
        IN  /\ Len(transactions') = Len(transactions)
            /\ Members(transactions', Edited.groupId) = cohort
            /\ \A i \in cohort :
                 /\ transactions'[i].id = transactions[i].id
                 /\ transactions'[i].category = f.category
                 /\ transactions'[i].tag = FinalTag(f)
                 /\ transactions'[i].fromSavings = f.fromSavings
                 /\ transactions'[i].fromEmergency = f.fromEmergency
                 /\ transactions'[i].isAssetLiquidation = f.isAssetLiquidation
                 /\ transactions[i].id # editingId =>
                      /\ transactions'[i].amount = transactions[i].amount
                      /\ transactions'[i].note = transactions[i].note
            /\ \A i \in (1..Len(transactions)) \ cohort :
                 transactions'[i] = transactions[i]

\* C12: saving the edit of a cohort member sets category, tag and the
\* source-pool flags of every transaction of the same groupId to the edited
\* values, changes amount and note on the edited member only and does not
\* resize the cohort
CohortEditFrame == [][CohortEditWrites]_vars

\* every other member of the cohort moves by as many days as the edited one
SiblingsShiftAlike ==
    IsCohortEdit /\ evolution = "App.tsx" =>
        LET delta == DayNumber(formData'.date) - DayNumber(Edited.date)
        IN  \A i \in Members(transactions, Edited.groupId) :
                DayNumber(transactions'[i].date) - DayNumber(transactions[i].date) = delta

\* C13: when the date of a cohort member is edited from d_old to d_new every
\* other member moves by the same number of days, so the day differences
\* inside the cohort are kept; with the date unchanged no member moves
CohortDateShift == [][SiblingsShiftAlike]_vars

\* a step of confirmDelete: only a delete shortens the list
IsDelete == Len(transactions') < Len(transactions)

\* one record leaves the list, the others stay as they are and where they are
DeletesOne ==
    IsDelete => \E i \in 1..Len(transactions) : transactions' = Without(transactions, i)

\* C21: confirmDelete removes exactly the transaction whose id was requested
\* and leaves every other transaction, the other members of its installment
\* cohort included, present and unchanged
DeleteDoesNotCascade == [][DeletesOne]_vars

\* an installment cohort that lost a member and kept the others
DeleteDoesNotCascadeWitness ==
    \E i \in 1..Len(transactions) :
        /\ transactions[i].groupId # NoGroup
        /\ Cardinality(Members(transactions, transactions[i].groupId))
             < transactions[i].note[3]

\* the latest processed month
LatestMonth == SortKeys(DOMAIN processedMonthsData)[Cardinality(DOMAIN processedMonthsData)]

\* the snapshot handed to the views, once the stats are computed
ProjectedSnapshot ==
    pc = "done" =>
        IF selectedMonth \in DOMAIN processedMonthsData
        THEN currentData = processedMonthsData[selectedMonth]
        ELSE LET last == processedMonthsData[LatestMonth]
             IN  /\ currentData.raw = EmptyMonth
                 /\ currentData.netIncome = 0
                 /\ currentData.deficitDeducted = FZero
                 /\ currentData.divertedToEmergency = FZero
                 /\ currentData.repaidDeficit = FZero
                 /\ currentData.capitalDivertedToEmergency = FZero
                 /\ currentData.savings = last.savings
                 /\ currentData.emergencyFund = last.emergencyFund
                 /\ currentData.accumulatedDeficit = last.accumulatedDeficit
                 /\ currentData.cumulativeAddOnAvailable =
                      FAdd(last.cumulativeAddOnAvailable, last.monthlyRemainingInvestable)
                 /\ currentData.monthlyMaxInvestable =
                      monthLocals[LatestMonth].surplusForNextMonth
                 /\ currentData.monthlyMaxInvestable = carryOverBudget
                 /\ currentData.monthlyRemainingInvestable = carryOverBudget

\* C22: for a selected month without processed snapshot the projected
\* snapshot has every per-month flow at 0 and the running values (savings,
\* emergency fund, cumulative capital, outstanding deficit, monthlyMaxInvestable
\* = final carryOverBudget) of the balances after the latest processed month;
\* for a month with a snapshot exactly that snapshot is projected
SelectionFallback == ProjectedSnapshot

\* the placeholder for a month outside the processed ones, after months whose
\* transactions moved the savings
SelectionFallbackWitness ==
    /\ pc = "done"
    /\ selectedMonth \notin DOMAIN processedMonthsData
    /\ Len(transactions) = MaxTx
    /\ currentData.savings # FromInt(initialStats.savings)
    /\ FlowTotal(processedMonthsData[LatestMonth].raw) > 0

\* the stored list differs only after a handler installed a new one
ReplacedByHandler == transactions' # transactions => IsSave \/ IsDelete

\* C23: the transaction list held in state is never mutated in place: its
\* contents and order change only when setTransactions installs a new list
\* (create, edit, delete); rendering a view, the history view included, leaves
\* the stored list and its order unchanged
WholeValueReplacement == [][ReplacedByHandler]_vars

\* the month processed last
LastMonth == Order[Processed]

\* the emergency fund of the earlier evolution after Step A of the last month
FundBeforeTransfer ==
    FAdd(Entry(LastMonth).runningEmergencyFund, Snap(LastMonth).divertedToEmergency)

\* its capital after Step C of the last month
CapitalBeforeTransfer ==
    FSub(FAdd(FSub(Entry(LastMonth).cumulativeInvestable, Snap(LastMonth).deficitDeducted),
              Snap(LastMonth).monthlyMaxInvestable),
         FromInt(Snap(LastMonth).raw.actualInvested))

\* C24: in the evolution part_000, after every month's transition the
\* emergency fund is not below its goal while cumulativeInvestable is positive;
\* the month moves min(cumulativeInvestable, remaining gap) from the capital to
\* the emergency fund when both are positive, records it as
\* capitalDivertedToEmergency, and the transfer leaves cumulativeInvestable +
\* emergencyFund unchanged
CapitalPriority ==
    (evolution = "part_000" /\ Processed > 0) =>
        LET goal     == FromInt(EmergencyGoalPart000(initialStats))
            gap      == FMax(FZero, FSub(goal, FundBeforeTransfer))
            transfer == Snap(LastMonth).capitalDivertedToEmergency
        IN  /\ ~(FLess(runningEmergencyFund, goal) /\ FPos(cumulativeInvestable))
            /\ transfer = IF FPos(gap) /\ FPos(CapitalBeforeTransfer)
                          THEN FMin(CapitalBeforeTransfer, gap) ELSE FZero
            /\ cumulativeInvestable = FSub(CapitalBeforeTransfer, transfer)
            /\ runningEmergencyFund = FAdd(FundBeforeTransfer, transfer)
            /\ Snap(LastMonth).emergencyFund = runningEmergencyFund
            /\ FAdd(cumulativeInvestable, runningEmergencyFund)
                 = FAdd(CapitalBeforeTransfer, FundBeforeTransfer)

\* a month whose capital closed the gap of the emergency fund and was not
\* used up by it
CapitalPriorityWitness ==
    /\ evolution = "part_000"
    /\ Processed > 0
    /\ FPos(Snap(LastMonth).capitalDivertedToEmergency)
    /\ FPos(cumulativeInvestable)
    /\ runningEmergencyFund = FromInt(EmergencyGoalPart000(initialStats))

\* C25: in the final evolution a month with netIncome >= 0 takes its
\* emergencyExpense from the emergency fund before the gap is computed:
\* divertedToEmergency = min(netIncome - repaidDeficit,
\* max(0, emergencyGoal - (fund on entry - emergencyExpense))), so the month's
\* surplus refills what its flagged expenses withdrew
ExpenseBeforeTopUp ==
    evolution = "App.tsx" =>
        \A m \in Months :
            Snap(m).netIncome >= 0 =>
                Snap(m).divertedToEmergency
                    = FMin(FSub(FromInt(Snap(m).netIncome), Snap(m).repaidDeficit),
                           FMax(FZero,
                                FSub(Goal, FSub(Entry(m).runningEmergencyFund,
                                                FromInt(Snap(m).raw.emergencyExpense)))))

\* a month that found the fund at its goal, paid an expense from it and
\* refilled it from the month's own surplus
ExpenseBeforeTopUpWitness ==
    \E m \in Months :
        /\ Snap(m).netIncome > 0
        /\ Snap(m).raw.emergencyExpense > 0
        /\ initialStats.emergencyGoal > 0
        /\ Entry(m).runningEmergencyFund = Goal
        /\ Snap(m).divertedToEmergency = FromInt(Snap(m).raw.emergencyExpense)
        /\ Snap(m).emergencyFund = Goal

\* x + y as a real number: the sum of two doubles without the rounding
ExactSum(x, y) ==
    IF x.s = y.s THEN MkF(x.s, MagAdd(x.m, y.m))
    ELSE IF MagLess(x.m, y.m) THEN MkF(y.s, MagSub(y.m, x.m))
    ELSE MkF(x.s, MagSub(x.m, y.m))

\* the money held in the four pools
PoolTotal ==
    ExactSum(ExactSum(cumulativeInvestable, carryOverBudget),
             ExactSum(cumulativeSavings, runningEmergencyFund))

\* what a month brings in from outside, less what leaves
ExternalFlow(raw) ==
    (raw.income - raw.expense) + raw.assetLiquidation - raw.savingsExpense
        - raw.emergencyExpense - raw.actualInvested

\* the four configured balances and the flows of the processed months
MoneyPutIn ==
    initialStats.available + initialStats.initialInvestable + initialStats.savings
        + initialStats.emergencyCurrent
        + SumOver(Months, [m \in Months |-> ExternalFlow(Snap(m).raw)])

\* C26: in the final evolution, after any prefix of months,
\* cumulativeInvestable + carryOverBudget + cumulativeSavings +
\* runningEmergencyFund equals the four initial balances plus the sum over the
\* processed months of netIncome + assetLiquidation - savingsExpense -
\* emergencyExpense - actualInvested
MoneyConservation == evolution = "App.tsx" => PoolTotal = FromInt(MoneyPutIn)

\* the transactions dated in month M or earlier, in list order
UpTo(txs, M) == SelectSeq(txs, LAMBDA t : ~KeyLess(M, MonthKey(t.date)))

\* the months whose transactions are the same in the two lists, up to the month
SharedPast(p, q, months) == { M \in months : UpTo(p, M) = UpTo(q, M) }

\* a list that differs from the stored one only after month M gives the
\* snapshot of M the stored list gives
LaterTransactionsIgnored ==
    \A q \in TxLists :
        LET past == SharedPast(transactions, q, DOMAIN processedMonthsData)
        IN  past # {} =>
              LET other == Stats(q, initialStats, nowMonth, selectedMonth).processedMonthsData
              IN  \A M \in past \cap DOMAIN other : other[M] = processedMonthsData[M]

TagMatchesInvestSource ==
    evolution = "App.tsx" =>
        \A i \in 1..Len(transactions) :
            transactions[i].category = CategoryInvest =>
                (transactions[i].tag = "invest_cumulative"
                    <=> transactions[i].investSource = "cumulative")

\* an expense that is paid from the month's income
IsOrdinaryExpense(t) ==
    /\ t.category # CategoryIncome
    /\ t.category # CategoryInvest
    /\ ~t.fromSavings
    /\ ~t.fromEmergency

\* C29: in the final evolution, after any sequence of form operations and
\* saves, every stored ordinary expense has the tag 'need' or 'want', so that
\* need + want = expense in every month of the aggregate
NeedWantCoverExpense ==
    evolution = "App.tsx" =>
        \A i \in 1..Len(transactions) :
            IsOrdinaryExpense(transactions[i]) => transactions[i].tag \in {"need", "want"}

\* at most one of the three source-pool flags is set
AtMostOneFlag(r) ==
    /\ ~(r.fromSavings /\ r.fromEmergency)
    /\ ~(r.fromSavings /\ r.isAssetLiquidation)
    /\ ~(r.fromEmergency /\ r.isAssetLiquidation)

\* C30: in the final evolution, after any sequence of form operations
\* (opening add or edit mode, switching type, toggling the savings, emergency
\* and asset-liquidation options, saving, cohort propagation), at most one of
\* fromSavings, fromEmergency and isAssetLiquidation is true in the form state
\* and in every stored transaction
FlagsExclusive ==
    evolution = "App.tsx" =>
        /\ \A i \in 1..Len(transactions) : AtMostOneFlag(transactions[i])
        /\ AtMostOneFlag(formData)
        /\ activeTab = "form" =>
             \A f \in FilledForms(evolution, formData, editingId) : AtMostOneFlag(f)

====
